---- MODULE Spec2Model ----
(***************************************************************************)
(* Model of lsst.ts.schedulerConfig:                                       *)
(*   - ConfigurationCommunicator (conf_comm.py): the eleven timeout-bound  *)
(*     acquisitions of configure() and the configuration tree they fill;   *)
(*   - General.set_topic (proposal/general.py): the flattening of a        *)
(*     General proposal into its wire record;                              *)
(*   - Sequence.set_topic (proposal/sequence.py): the flattening of a      *)
(*     Sequence proposal with its sub-sequences and master sub-sequences;  *)
(*   - General.proposal_fields and Sequence.proposal_fields: the field Ids *)
(*     of a proposal.                                                      *)
(* Strings are sequences of one-character strings, so that str.split and   *)
(* str.join are computed character by character.  Floating point fields    *)
(* are modelled over the integers.                                         *)
(***************************************************************************)
EXTENDS Integers, Sequences, FiniteSets, TLC

VARIABLES
    no_dds_comm,      \* self.no_dds_comm
    sal,              \* self.sal: "None" or "SalManager"
    config,           \* the SimulationConfig tree handed to initialize()
    conf,             \* the sample buffers self.sched_conf, ..., self.topology_conf
    num_proposals,    \* self.num_proposals: <<>> while the attribute does not exist, <<n>> once set
    survey_topology,  \* self.survey_topology
    pc,               \* position of the thread running initialize()/configure()
    cur,              \* index in configure() of the step being run
    lasttime,         \* local lasttime of the running step
    now,              \* wall clock, time.time()
    error,            \* exception that left initialize(), "None" when none
    hist,             \* record of what the transport and the clock were asked
    general,          \* a General proposal configuration
    topic,            \* the generalPropConfig wire record handed to set_topic
    gpc,              \* position of the encoder run
    sequence,         \* a Sequence proposal configuration
    stopic,           \* the sequencePropConfig wire record handed to set_topic
    spc,              \* position of the Sequence encoder run
    fd,               \* the rows of the fields database handed to proposal_fields
    ids,              \* what proposal_fields returned, or the exception it raised
    fpc               \* position of the proposal_fields call

vars == <<no_dds_comm, sal, config, conf, num_proposals, survey_topology, pc, cur,
          lasttime, now, error, hist, general, topic, gpc, sequence, stopic, spc,
          fd, ids, fpc>>

commVars == <<no_dds_comm, sal, config, conf, num_proposals, survey_topology, pc, cur,
              lasttime, now, error, hist>>

genVars == <<general, topic, gpc>>

seqVars == <<sequence, stopic, spc>>

fieldVars == <<fd, ids, fpc>>

encVars == <<genVars, seqVars, fieldVars>>

-----------------------------------------------------------------------------
(* Python string and list primitives *)

\* s.split(sep) for a one-character separator: the pieces between separators,
\* so "" splits to [""] and "a," to ["a", ""].
RECURSIVE split(_, _)
split(s, sep) ==
    IF \A i \in 1..Len(s) : s[i] # sep
    THEN <<s>>
    ELSE LET k == CHOOSE i \in 1..Len(s) :
                      s[i] = sep /\ \A j \in 1..(i - 1) : s[j] # sep
         IN  <<SubSeq(s, 1, k - 1)>> \o split(SubSeq(s, k + 1, Len(s)), sep)

\* sep.join(parts)
RECURSIVE join(_, _)
join(parts, sep) ==
    IF Len(parts) = 0 THEN <<>>
    ELSE IF Len(parts) = 1 THEN parts[1]
    ELSE parts[1] \o <<sep>> \o join(Tail(parts), sep)

\* bool(x) of a number
bool(x) == x # 0

\* int(x) of a number (the model's numbers are integers already)
int(x) == x

\* x.split(',') if len(x) > 0 else []
split_or_empty(x) == IF Len(x) > 0 THEN split(x, ",") ELSE <<>>

-----------------------------------------------------------------------------
(* The topics, in the order configure() runs their steps *)

\* configure(): the eleven steps, named by the topic each one subscribes to
configure_mutant_order ==
    << "schedulerConfig", "driverConfig", "obsSiteConfig", "domeConfig",
       "telescopeConfig", "rotatorConfig", "cameraConfig", "slewConfig",
       "opticsLoopCorrConfig", "parkConfig", "surveyTopology" >>

configure ==
    << "schedulerConfig", "driverConfig", "obsSiteConfig", "telescopeConfig",
       "domeConfig", "rotatorConfig", "cameraConfig", "slewConfig",
       "opticsLoopCorrConfig", "parkConfig", "surveyTopology" >>

Topics == { configure[i] : i \in 1..Len(configure) }

socs_timeout == 180

\* Seconds the wall clock advances in one step of the clock
TickStep == 90

\* The reading of the clock up to which time passes at any point of
\* configure()
MaxClock == 720

-----------------------------------------------------------------------------
(* Samples.  Each constructor lists the attributes the code reads. *)

schedulerConfigC(d) == [ surveyDuration |-> d ]

driverConfigC(flag, v) ==
    [ coaddValues |-> flag, timeBalancing |-> flag, timecostTimeMax |-> v,
      timecostTimeRef |-> v, timecostCostRef |-> v, timecostWeight |-> v,
      filtercostWeight |-> v, propboostWeight |-> v, nightBoundary |-> 0 - v,
      newMoonPhaseThreshold |-> v, ignoreSkyBrightness |-> flag,
      ignoreAirmass |-> flag, ignoreClouds |-> flag, ignoreSeeing |-> flag,
      lookaheadWindowSize |-> v, lookaheadBonusWeight |-> v ]

obsSiteConfigC(n, v) ==
    [ name |-> n, latitude |-> 0 - v, longitude |-> 0 - v, height |-> v,
      pressure |-> v, temperature |-> v, relativeHumidity |-> v ]

telescopeConfigC(minpos, v) ==
    [ altitudeMinpos |-> minpos, altitudeMaxpos |-> v, altitudeMaxspeed |-> v,
      altitudeAccel |-> v, altitudeDecel |-> v, azimuthMinpos |-> 0 - v,
      azimuthMaxpos |-> v, azimuthMaxspeed |-> v, azimuthAccel |-> v,
      azimuthDecel |-> v, settleTime |-> v ]

domeConfigC(maxspeed, v) ==
    [ altitudeMaxspeed |-> maxspeed, altitudeAccel |-> v, altitudeDecel |-> v,
      altitudeFreerange |-> v, azimuthMaxspeed |-> v, azimuthAccel |-> v,
      azimuthDecel |-> v, azimuthFreerange |-> v, settleTime |-> v ]

rotatorConfigC(maxspeed, flag, v) ==
    [ minpos |-> 0 - v, maxpos |-> v, filterChangePos |-> v, maxspeed |-> maxspeed,
      accel |-> v, decel |-> v, followsky |-> flag, resumeAngle |-> flag ]

cameraConfigC(readout, v, mounted, removable, unmounted) ==
    [ readoutTime |-> readout, shutterTime |-> v, filterMountTime |-> v,
      filterChangeTime |-> v, filterMaxChangesBurstNum |-> v,
      filterMaxChangesBurstTime |-> v, filterMaxChangesAvgNum |-> v,
      filterMaxChangesAvgTime |-> v, filterMounted |-> mounted, filterPos |-> v,
      filterRemovable |-> removable, filterUnmounted |-> unmounted ]

slewConfigC(exposures, a, b) ==
    [ prereqDomaz |-> b, prereqTelalt |-> b, prereqTelaz |-> b,
      prereqTelOpticsOpenLoop |-> a, prereqTelOpticsClosedLoop |-> a,
      prereqTelRot |-> b, prereqFilter |-> b, prereqAdc |-> b,
      prereqInsOptics |-> b, prereqGuiderPos |-> b, prereqGuiderAdq |-> b,
      prereqTelSettle |-> a, prereqDomazSettle |-> a,
      prereqExposures |-> exposures, prereqReadout |-> b ]

opticsLoopCorrConfigC(slope, v) ==
    [ telOpticsOlSlope |-> slope, telOpticsClAltLimit |-> v, telOpticsClDelay |-> v ]

parkConfigC(alt, v) ==
    [ telescopeAltitude |-> alt, telescopeAzimuth |-> v, telescopeRotator |-> v,
      domeAltitude |-> v, domeAzimuth |-> v, filterPosition |-> v ]

\* The predicate reads numSequenceProps and the sum reads numSeqProps: two
\* attributes of the sample, carried separately.
surveyTopologyC(ngen, nsequence, nseq, gen, seq) ==
    [ numGeneralProps |-> ngen, numSequenceProps |-> nsequence, numSeqProps |-> nseq,
      generalPropos |-> gen, sequencePropos |-> seq ]

\* What a never-published topic yields: every number 0, every string "".
ZeroSample(t) ==
    CASE t = "schedulerConfig"      -> schedulerConfigC(0)
      [] t = "driverConfig"         -> driverConfigC(0, 0)
      [] t = "obsSiteConfig"        -> obsSiteConfigC(<<>>, 0)
      [] t = "telescopeConfig"      -> telescopeConfigC(0, 0)
      [] t = "domeConfig"           -> domeConfigC(0, 0)
      [] t = "rotatorConfig"        -> rotatorConfigC(0, 0, 0)
      [] t = "cameraConfig"         -> cameraConfigC(0, 0, <<>>, <<>>, <<>>)
      [] t = "slewConfig"           -> slewConfigC(<<>>, <<>>, <<>>)
      [] t = "opticsLoopCorrConfig" -> opticsLoopCorrConfigC(0, 0)
      [] t = "parkConfig"           -> parkConfigC(0, 0)
      [] t = "surveyTopology"       -> surveyTopologyC(0, 0, 0, <<>>, <<>>)

\* The samples a poll of topic t may deliver.
Samples(t) ==
    {ZeroSample(t)} \cup
    CASE t = "schedulerConfig"      -> { schedulerConfigC(3650) }
      [] t = "driverConfig"         -> { driverConfigC(1, 150) }
      [] t = "obsSiteConfig"        -> { obsSiteConfigC(<<"L", "S", "S", "T">>, 30) }
      [] t = "telescopeConfig"      ->
             { telescopeConfigC(0 - 1, 86), telescopeConfigC(20, 86) }
      [] t = "domeConfig"           -> { domeConfigC(0 - 1, 2) }
      [] t = "rotatorConfig"        -> { rotatorConfigC(0 - 1, 1, 90) }
      [] t = "cameraConfig"         ->
             { cameraConfigC(2, 120, <<"g", ",", "r">>, <<"y">>, <<>>) }
      [] t = "slewConfig"           ->
             { slewConfigC(<<"a", ",", "b">>, <<"c">>, <<>>) }
      [] t = "opticsLoopCorrConfig" -> { opticsLoopCorrConfigC(1, 9) }
      [] t = "parkConfig"           -> { parkConfigC(86, 0) }
      [] t = "surveyTopology"       ->
             { surveyTopologyC(1, 0, 0, <<"W", "F", "D">>, <<>>),
               surveyTopologyC(1, 1, 1, <<"W", ",", "N">>, <<"D", "D">>),
               surveyTopologyC(0, 1, 0, <<>>, <<"D", "D">>) }

\* Return codes of getNextSample_*: 0, or a code for "no sample"
RCodes == {0, 0 - 100}

-----------------------------------------------------------------------------
(* The validity test of each wait loop: the second conjunct of
   "if rcode == 0 and <test>" *)

valid_scheduler(s)        == s.surveyDuration # 0
valid_scheduler_driver(s) == s.timecostTimeMax > 0
valid_observing_site(s)   == s.name # <<>>
valid_telescope(s)        == s.altitudeMinpos >= 0
valid_dome(s)             == s.altitudeMaxspeed >= 0
valid_rotator(s)          == s.maxspeed >= 0
valid_camera_mutant(s)    == s.readoutTime >= 0
valid_camera(s)           == s.readoutTime > 0
valid_slew(s)             == s.prereqExposures # <<>>
valid_optics_loop_corr(s) == s.telOpticsOlSlope > 0
valid_park(s)             == s.telescopeAltitude > 0
valid_proposals(s)        == s.numGeneralProps > 0 \/ s.numSequenceProps > 0

Valid(t, s) ==
    CASE t = "schedulerConfig"      -> valid_scheduler(s)
      [] t = "driverConfig"         -> valid_scheduler_driver(s)
      [] t = "obsSiteConfig"        -> valid_observing_site(s)
      [] t = "telescopeConfig"      -> valid_telescope(s)
      [] t = "domeConfig"           -> valid_dome(s)
      [] t = "rotatorConfig"        -> valid_rotator(s)
      [] t = "cameraConfig"         -> valid_camera(s)
      [] t = "slewConfig"           -> valid_slew(s)
      [] t = "opticsLoopCorrConfig" -> valid_optics_loop_corr(s)
      [] t = "parkConfig"           -> valid_park(s)
      [] t = "surveyTopology"       -> valid_proposals(s)

-----------------------------------------------------------------------------
(* The assignments each step makes to the configuration tree once its loop
   has been left through break.  c is the tree, s the sample buffer. *)

write_scheduler(c, s) ==
    [c EXCEPT !.survey.duration = s.surveyDuration]

write_scheduler_driver(c, s) ==
    [c EXCEPT
       !.sched_driver.coadd_values = bool(s.coaddValues),
       !.sched_driver.time_balancing = bool(s.timeBalancing),
       !.sched_driver.timecost_time_max = s.timecostTimeMax,
       !.sched_driver.timecost_time_ref = s.timecostTimeRef,
       !.sched_driver.timecost_cost_ref = s.timecostCostRef,
       !.sched_driver.timecost_weight = s.timecostWeight,
       !.sched_driver.filtercost_weight = s.filtercostWeight,
       !.sched_driver.propboost_weight = s.propboostWeight,
       !.sched_driver.night_boundary = s.nightBoundary,
       !.sched_driver.new_moon_phase_threshold = s.newMoonPhaseThreshold,
       !.sched_driver.ignore_sky_brightness = bool(s.ignoreSkyBrightness),
       !.sched_driver.ignore_airmass = bool(s.ignoreAirmass),
       !.sched_driver.ignore_clouds = bool(s.ignoreClouds),
       !.sched_driver.ignore_seeing = bool(s.ignoreSeeing),
       !.sched_driver.lookahead_window_size = int(s.lookaheadWindowSize),
       !.sched_driver.lookahead_bonus_weight = s.lookaheadBonusWeight]

write_observing_site(c, s) ==
    [c EXCEPT
       !.observing_site.name = s.name,
       !.observing_site.latitude = s.latitude,
       !.observing_site.longitude = s.longitude,
       !.observing_site.height = s.height,
       !.observing_site.pressure = s.pressure,
       !.observing_site.temperature = s.temperature,
       !.observing_site.relative_humidity = s.relativeHumidity]

write_telescope(c, s) ==
    [c EXCEPT
       !.observatory.telescope.altitude_minpos = s.altitudeMinpos,
       !.observatory.telescope.altitude_maxpos = s.altitudeMaxpos,
       !.observatory.telescope.altitude_maxspeed = s.altitudeMaxspeed,
       !.observatory.telescope.altitude_accel = s.altitudeAccel,
       !.observatory.telescope.altitude_decel = s.altitudeDecel,
       !.observatory.telescope.azimuth_minpos = s.azimuthMinpos,
       !.observatory.telescope.azimuth_maxpos = s.azimuthMaxpos,
       !.observatory.telescope.azimuth_maxspeed = s.azimuthMaxspeed,
       !.observatory.telescope.azimuth_accel = s.azimuthAccel,
       !.observatory.telescope.azimuth_decel = s.azimuthDecel,
       !.observatory.telescope.settle_time = s.settleTime]

write_dome(c, s) ==
    [c EXCEPT
       !.observatory.dome.altitude_maxspeed = s.altitudeMaxspeed,
       !.observatory.dome.altitude_accel = s.altitudeAccel,
       !.observatory.dome.altitude_decel = s.altitudeDecel,
       !.observatory.dome.altitude_freerange = s.altitudeFreerange,
       !.observatory.dome.azimuth_maxspeed = s.azimuthMaxspeed,
       !.observatory.dome.azimuth_accel = s.azimuthAccel,
       !.observatory.dome.azimuth_decel = s.azimuthDecel,
       !.observatory.dome.azimuth_freerange = s.azimuthFreerange,
       !.observatory.dome.settle_time = s.settleTime]

write_rotator(c, s) ==
    [c EXCEPT
       !.observatory.rotator.minpos = s.minpos,
       !.observatory.rotator.maxpos = s.maxpos,
       !.observatory.rotator.filter_change_pos = s.filterChangePos,
       !.observatory.rotator.maxspeed = s.maxspeed,
       !.observatory.rotator.accel = s.accel,
       !.observatory.rotator.decel = s.decel,
       !.observatory.rotator.follow_sky = bool(s.followsky),
       !.observatory.rotator.resume_angle = bool(s.resumeAngle)]

write_camera(c, s) ==
    [c EXCEPT
       !.observatory.camera.readout_time = s.readoutTime,
       !.observatory.camera.shutter_time = s.shutterTime,
       !.observatory.camera.filter_mount_time = s.filterMountTime,
       !.observatory.camera.filter_change_time = s.filterChangeTime,
       !.observatory.camera.filter_max_changes_burst_num = int(s.filterMaxChangesBurstNum),
       !.observatory.camera.filter_max_changes_burst_time = s.filterMaxChangesBurstTime,
       !.observatory.camera.filter_max_changes_avg_num = s.filterMaxChangesAvgNum,
       !.observatory.camera.filter_max_changes_avg_time = s.filterMaxChangesAvgTime,
       !.observatory.camera.filter_mounted = split(s.filterMounted, ","),
       !.observatory.camera.filter_pos = s.filterPos,
       !.observatory.camera.filter_removable = split(s.filterRemovable, ","),
       !.observatory.camera.filter_unmounted = split(s.filterUnmounted, ",")]

write_slew(c, s) ==
    [c EXCEPT
       !.observatory.slew.prereq_domaz = split_or_empty(s.prereqDomaz),
       !.observatory.slew.prereq_telalt = split_or_empty(s.prereqTelalt),
       !.observatory.slew.prereq_telaz = split_or_empty(s.prereqTelaz),
       !.observatory.slew.prereq_telopticsopenloop = split_or_empty(s.prereqTelOpticsOpenLoop),
       !.observatory.slew.prereq_telopticsclosedloop = split_or_empty(s.prereqTelOpticsClosedLoop),
       !.observatory.slew.prereq_telrot = split_or_empty(s.prereqTelRot),
       !.observatory.slew.prereq_filter = split_or_empty(s.prereqFilter),
       !.observatory.slew.prereq_adc = split_or_empty(s.prereqAdc),
       !.observatory.slew.prereq_ins_optics = split_or_empty(s.prereqInsOptics),
       !.observatory.slew.prereq_guider_pos = split_or_empty(s.prereqGuiderPos),
       !.observatory.slew.prereq_guider_adq = split_or_empty(s.prereqGuiderAdq),
       !.observatory.slew.prereq_telsettle = split_or_empty(s.prereqTelSettle),
       !.observatory.slew.prereq_domazsettle = split_or_empty(s.prereqDomazSettle),
       !.observatory.slew.prereq_exposures = split_or_empty(s.prereqExposures),
       !.observatory.slew.prereq_readout = split_or_empty(s.prereqReadout)]

write_optics_loop_corr(c, s) ==
    [c EXCEPT
       !.observatory.optics_loop_corr.tel_optics_ol_slope = s.telOpticsOlSlope,
       !.observatory.optics_loop_corr.tel_optics_cl_alt_limit = s.telOpticsClAltLimit,
       !.observatory.optics_loop_corr.tel_optics_cl_delay = s.telOpticsClDelay]

\* write_park with the azimuth taken from the altitude attribute
write_park_mutant(c, s) ==
    [c EXCEPT
       !.observatory.park.telescope_altitude = s.telescopeAltitude,
       !.observatory.park.telescope_azimuth = s.telescopeAltitude,
       !.observatory.park.telescope_rotator = s.telescopeRotator,
       !.observatory.park.dome_altitude = s.domeAltitude,
       !.observatory.park.dome_azimuth = s.domeAzimuth,
       !.observatory.park.filter_position = s.filterPosition]

write_park(c, s) ==
    [c EXCEPT
       !.observatory.park.telescope_altitude = s.telescopeAltitude,
       !.observatory.park.telescope_azimuth = s.telescopeAzimuth,
       !.observatory.park.telescope_rotator = s.telescopeRotator,
       !.observatory.park.dome_altitude = s.domeAltitude,
       !.observatory.park.dome_azimuth = s.domeAzimuth,
       !.observatory.park.filter_position = s.filterPosition]

\* The survey topology step writes nothing to the tree: it sets two
\* attributes of the communicator.
proposals_num_proposals(s) == s.numGeneralProps + s.numSeqProps

proposals_survey_topology(st, s) ==
    [k \in DOMAIN st \cup {"general", "sequence"} |->
        IF k = "general" THEN split(s.generalPropos, ",")
        ELSE IF k = "sequence" THEN split(s.sequencePropos, ",")
        ELSE st[k]]

Write(t, c, s) ==
    CASE t = "schedulerConfig"      -> write_scheduler(c, s)
      [] t = "driverConfig"         -> write_scheduler_driver(c, s)
      [] t = "obsSiteConfig"        -> write_observing_site(c, s)
      [] t = "telescopeConfig"      -> write_telescope(c, s)
      [] t = "domeConfig"           -> write_dome(c, s)
      [] t = "rotatorConfig"        -> write_rotator(c, s)
      [] t = "cameraConfig"         -> write_camera(c, s)
      [] t = "slewConfig"           -> write_slew(c, s)
      [] t = "opticsLoopCorrConfig" -> write_optics_loop_corr(c, s)
      [] t = "parkConfig"           -> write_park(c, s)
      [] t = "surveyTopology"       -> c

-----------------------------------------------------------------------------
(* State after construction *)

\* The tree handed to initialize(): every field the steps assign holds a
\* default that no sample carries, science is the part run() reads.
InitConfig ==
    LET d == 0 - 99
        l == <<<<"?">>>>
    IN
    [ survey |-> [ duration |-> d ],
      sched_driver |->
        [ coadd_values |-> FALSE, time_balancing |-> FALSE, timecost_time_max |-> d,
          timecost_time_ref |-> d, timecost_cost_ref |-> d, timecost_weight |-> d,
          filtercost_weight |-> d, propboost_weight |-> d, night_boundary |-> d,
          new_moon_phase_threshold |-> d, ignore_sky_brightness |-> FALSE,
          ignore_airmass |-> FALSE, ignore_clouds |-> FALSE, ignore_seeing |-> FALSE,
          lookahead_window_size |-> d, lookahead_bonus_weight |-> d ],
      observing_site |->
        [ name |-> <<"?">>, latitude |-> d, longitude |-> d, height |-> d,
          pressure |-> d, temperature |-> d, relative_humidity |-> d ],
      observatory |->
        [ telescope |->
            [ altitude_minpos |-> d, altitude_maxpos |-> d, altitude_maxspeed |-> d,
              altitude_accel |-> d, altitude_decel |-> d, azimuth_minpos |-> d,
              azimuth_maxpos |-> d, azimuth_maxspeed |-> d, azimuth_accel |-> d,
              azimuth_decel |-> d, settle_time |-> d ],
          dome |->
            [ altitude_maxspeed |-> d, altitude_accel |-> d, altitude_decel |-> d,
              altitude_freerange |-> d, azimuth_maxspeed |-> d, azimuth_accel |-> d,
              azimuth_decel |-> d, azimuth_freerange |-> d, settle_time |-> d ],
          rotator |->
            [ minpos |-> d, maxpos |-> d, filter_change_pos |-> d, maxspeed |-> d,
              accel |-> d, decel |-> d, follow_sky |-> FALSE, resume_angle |-> FALSE ],
          camera |->
            [ readout_time |-> d, shutter_time |-> d, filter_mount_time |-> d,
              filter_change_time |-> d, filter_max_changes_burst_num |-> d,
              filter_max_changes_burst_time |-> d, filter_max_changes_avg_num |-> d,
              filter_max_changes_avg_time |-> d, filter_mounted |-> l, filter_pos |-> d,
              filter_removable |-> l, filter_unmounted |-> l ],
          slew |->
            [ prereq_domaz |-> l, prereq_telalt |-> l, prereq_telaz |-> l,
              prereq_telopticsopenloop |-> l, prereq_telopticsclosedloop |-> l,
              prereq_telrot |-> l, prereq_filter |-> l, prereq_adc |-> l,
              prereq_ins_optics |-> l, prereq_guider_pos |-> l,
              prereq_guider_adq |-> l, prereq_telsettle |-> l,
              prereq_domazsettle |-> l, prereq_exposures |-> l, prereq_readout |-> l ],
          optics_loop_corr |->
            [ tel_optics_ol_slope |-> d, tel_optics_cl_alt_limit |-> d,
              tel_optics_cl_delay |-> d ],
          park |->
            [ telescope_altitude |-> d, telescope_azimuth |-> d,
              telescope_rotator |-> d, dome_altitude |-> d, dome_azimuth |-> d,
              filter_position |-> d ] ],
      science |->
        [ general_props |-> [ active |-> <<>> ],
          sequence_props |-> [ active |-> <<>> ] ] ]

\* A mapping with no key: the attributes not yet set, and the dict {}.
Empty == [k \in {} |-> 0]

\* m with key k set to v
Put(m, k, v) == [x \in DOMAIN m \cup {k} |-> IF x = k THEN v ELSE m[x]]

\* Nothing asked of the transport or the clock yet.
InitHist ==
    [ subscribed |-> {},     \* topics handed to set_subscribe_topic
      polled     |-> {},     \* topics getNextSample_* was called for
      accepted   |-> <<>>,   \* topics whose loop was left by break, in order
      sample     |-> Empty,  \* the buffer of each accepted topic at its break
      \* of the acquisition in progress or just ended:
      lastPoll   |-> <<>>,   \*   its latest poll: topic, rcode, buffer
      lastAccept |-> <<>>,   \*   its break: topic, elapsed time at the poll
      lastCheck  |-> <<>>,   \*   its latest reading tf: topic, tf - lasttime
      writes     |-> <<>>,   \* the steps that assigned their fields, in order
      runs       |-> 0,      \* calls of run()
      run_error  |-> "None", \* what the latest call of run() raised
      put        |-> <<>> ]  \* what was handed to sal.put, in order

\* __init__
InitComm ==
    /\ no_dds_comm \in BOOLEAN
    /\ sal = "None"
    /\ config = InitConfig
    /\ conf = Empty
    /\ num_proposals = <<>>
    /\ survey_topology = Empty
    /\ pc = "constructed"
    /\ cur = 1
    /\ lasttime = 0
    /\ now = 0
    /\ error = "None"
    /\ hist = InitHist

\* No encoder run takes part in the communicator's specification.
IdleEncoder ==
    /\ general = <<>>
    /\ topic = <<>>
    /\ gpc = "off"
    /\ sequence = <<>>
    /\ stopic = <<>>
    /\ spc = "off"
    /\ fd = {}
    /\ ids = <<>>
    /\ fpc = "off"

Init == InitComm /\ IdleEncoder

-----------------------------------------------------------------------------
(* initialize() and the steps of configure() *)

\* The step that follows step cur, or the return of configure()
Advance ==
    IF cur < Len(configure)
    THEN /\ cur' = cur + 1
         /\ pc' = "step"
    ELSE /\ cur' = cur
         /\ pc' = "done"

\* initialize(sal, config): keeps both and calls configure()
initialize ==
    /\ pc = "constructed"
    /\ sal' = "SalManager"
    /\ pc' = "step"
    /\ UNCHANGED <<no_dds_comm, config, conf, num_proposals, survey_topology, cur,
                   lasttime, now, error, hist>>
    /\ UNCHANGED encVars

\* default_sample with the step's assignments moved out of the else branch
default_sample_mutant ==
    /\ pc = "step"
    /\ no_dds_comm
    /\ conf' = Put(conf, configure[cur], ZeroSample(configure[cur]))
    /\ config' = Write(configure[cur], config, ZeroSample(configure[cur]))
    /\ Advance
    /\ UNCHANGED <<no_dds_comm, sal, num_proposals, survey_topology,
                   lasttime, now, error, hist>>
    /\ UNCHANGED encVars

\* if self.no_dds_comm: the buffer is a default-constructed sample and the
\* step returns; the assignments to the tree are in the else branch.
default_sample ==
    /\ pc = "step"
    /\ no_dds_comm
    /\ conf' = Put(conf, configure[cur], ZeroSample(configure[cur]))
    /\ Advance
    /\ UNCHANGED <<no_dds_comm, sal, config, num_proposals, survey_topology,
                   lasttime, now, error, hist>>
    /\ UNCHANGED encVars

\* set_subscribe_topic with one clock for the whole of configure(): lasttime
\* is taken by the first step only
set_subscribe_topic_mutant ==
    /\ pc = "step"
    /\ ~no_dds_comm
    /\ conf' = Put(conf, configure[cur], ZeroSample(configure[cur]))
    /\ lasttime' = IF cur = 1 THEN now ELSE lasttime
    /\ pc' = "poll"
    /\ hist' = [hist EXCEPT !.subscribed = @ \cup {configure[cur]},
                             !.lastPoll = <<>>, !.lastAccept = <<>>,
                             !.lastCheck = <<>>]
    /\ UNCHANGED <<no_dds_comm, sal, config, num_proposals, survey_topology, cur,
                   now, error>>
    /\ UNCHANGED encVars

\* else: the buffer is what set_subscribe_topic returns, lasttime = time.time()
set_subscribe_topic ==
    /\ pc = "step"
    /\ ~no_dds_comm
    /\ conf' = Put(conf, configure[cur], ZeroSample(configure[cur]))
    /\ lasttime' = now
    /\ pc' = "poll"
    /\ hist' = [hist EXCEPT !.subscribed = @ \cup {configure[cur]},
                             !.lastPoll = <<>>, !.lastAccept = <<>>,
                             !.lastCheck = <<>>]
    /\ UNCHANGED <<no_dds_comm, sal, config, num_proposals, survey_topology, cur,
                   now, error>>
    /\ UNCHANGED encVars

\* (tf - lasttime) > self.socs_timeout
timed_out_mutant(tf, t0) == (tf - t0) >= socs_timeout

\* the two readings of the clock taken the other way round
timed_out_swapped(tf, t0) == (t0 - tf) > socs_timeout

timed_out(tf, t0) == (tf - t0) > socs_timeout

\* getNextSample with the timeout looked at before the sample: a poll that
\* returns after the timeout has elapsed is not accepted
getNextSample_mutant ==
    /\ pc = "poll"
    /\ \E rcode \in RCodes, s \in Samples(configure[cur]) :
         LET t   == configure[cur]
             buf == IF rcode = 0 THEN s ELSE conf[t]
             p   == [topic |-> t, rcode |-> rcode, sample |-> buf]
         IN
         /\ conf' = Put(conf, t, buf)
         /\ IF rcode = 0 /\ Valid(t, buf) /\ ~timed_out(now, lasttime)
            THEN /\ config' = Write(t, config, buf)
                 /\ num_proposals' =
                      IF t = "surveyTopology" THEN <<proposals_num_proposals(buf)>>
                      ELSE num_proposals
                 /\ survey_topology' =
                      IF t = "surveyTopology"
                      THEN proposals_survey_topology(survey_topology, buf)
                      ELSE survey_topology
                 /\ Advance
                 /\ hist' = [hist EXCEPT
                        !.polled = @ \cup {t},
                        !.accepted = Append(@, t),
                        !.sample = Put(@, t, buf),
                        !.lastPoll = <<p>>,
                        !.lastAccept = <<[topic |-> t, elapsed |-> now - lasttime]>>,
                        !.writes = Append(@, t)]
            ELSE /\ pc' = "check"
                 /\ hist' = [hist EXCEPT !.polled = @ \cup {t}, !.lastPoll = <<p>>]
                 /\ UNCHANGED <<config, num_proposals, survey_topology, cur>>
    /\ UNCHANGED <<no_dds_comm, sal, lasttime, now, error>>
    /\ UNCHANGED encVars

\* One pass of "while True" up to the test: getNextSample_* fills the buffer
\* when it returns 0 and leaves it alone otherwise.  On rcode 0 and a valid
\* buffer the loop is left by break and the step assigns its fields and
\* returns; otherwise the else branch is entered.
getNextSample ==
    /\ pc = "poll"
    /\ \E rcode \in RCodes, s \in Samples(configure[cur]) :
         LET t   == configure[cur]
             buf == IF rcode = 0 THEN s ELSE conf[t]
             p   == [topic |-> t, rcode |-> rcode, sample |-> buf]
         IN
         /\ conf' = Put(conf, t, buf)
         /\ IF rcode = 0 /\ Valid(t, buf)
            THEN /\ config' = Write(t, config, buf)
                 /\ num_proposals' =
                      IF t = "surveyTopology" THEN <<proposals_num_proposals(buf)>>
                      ELSE num_proposals
                 /\ survey_topology' =
                      IF t = "surveyTopology"
                      THEN proposals_survey_topology(survey_topology, buf)
                      ELSE survey_topology
                 /\ Advance
                 /\ hist' = [hist EXCEPT
                        !.polled = @ \cup {t},
                        !.accepted = Append(@, t),
                        !.sample = Put(@, t, buf),
                        !.lastPoll = <<p>>,
                        !.lastAccept = <<[topic |-> t, elapsed |-> now - lasttime]>>,
                        !.writes = Append(@, t)]
            ELSE /\ pc' = "check"
                 /\ hist' = [hist EXCEPT !.polled = @ \cup {t}, !.lastPoll = <<p>>]
                 /\ UNCHANGED <<config, num_proposals, survey_topology, cur>>
    /\ UNCHANGED <<no_dds_comm, sal, lasttime, now, error>>
    /\ UNCHANGED encVars

\* check_timeout with the tree put back to what initialize() was handed when
\* the error is raised
check_timeout_rollback ==
    /\ pc = "check"
    /\ IF timed_out(now, lasttime)
       THEN /\ error' = "SchedulerTimeoutError"
            /\ pc' = "raised"
            /\ config' = InitConfig
       ELSE /\ error' = error
            /\ pc' = "poll"
            /\ config' = config
    /\ hist' = [hist EXCEPT
           !.lastCheck = <<[topic |-> configure[cur], elapsed |-> now - lasttime]>>]
    /\ UNCHANGED <<no_dds_comm, sal, conf, num_proposals, survey_topology,
                   cur, lasttime, now>>
    /\ UNCHANGED encVars

\* check_timeout with the error caught by configure(), which goes on to its
\* next step
check_timeout_mutant ==
    /\ pc = "check"
    /\ IF timed_out(now, lasttime)
       THEN /\ error' = "SchedulerTimeoutError"
            /\ Advance
       ELSE /\ error' = error
            /\ pc' = "poll"
            /\ cur' = cur
    /\ hist' = [hist EXCEPT
           !.lastCheck = <<[topic |-> configure[cur], elapsed |-> now - lasttime]>>]
    /\ UNCHANGED <<no_dds_comm, sal, config, conf, num_proposals, survey_topology,
                   lasttime, now>>
    /\ UNCHANGED encVars

\* else: tf = time.time(); raise SchedulerTimeoutError when timed out,
\* otherwise go round the loop.  Nothing catches the error: it leaves
\* configure() and initialize().
check_timeout ==
    /\ pc = "check"
    /\ IF timed_out(now, lasttime)
       THEN /\ error' = "SchedulerTimeoutError"
            /\ pc' = "raised"
       ELSE /\ error' = error
            /\ pc' = "poll"
    /\ hist' = [hist EXCEPT
           !.lastCheck = <<[topic |-> configure[cur], elapsed |-> now - lasttime]>>]
    /\ UNCHANGED <<no_dds_comm, sal, config, conf, num_proposals, survey_topology,
                   cur, lasttime, now>>
    /\ UNCHANGED encVars

\* The wall clock advances while configure() runs: between two steps, inside
\* set_subscribe_topic, between the polls and before the clock is read.  Up to
\* MaxClock it advances wherever configure() is; beyond, it still advances
\* until the acquisition under way is past its timeout.
Tick ==
    /\ pc \in {"step", "poll", "check"}
    /\ \/ now < MaxClock
       \/ pc # "step" /\ now - lasttime <= socs_timeout
    /\ now' = now + TickStep
    /\ UNCHANGED <<no_dds_comm, sal, config, conf, num_proposals, survey_topology,
                   pc, cur, lasttime, error, hist>>
    /\ UNCHANGED encVars

Next ==
    \/ initialize
    \/ default_sample
    \/ set_subscribe_topic
    \/ getNextSample
    \/ check_timeout
    \/ Tick

Spec == Init /\ [][Next]_vars

\* Where configure() is: its step, the position within the step, the clock.
\* Every action of Next changes one of the three, so a step of an action that
\* changes them is any step of that action.
position == <<pc, cur, now>>

\* configure() running on a transport whose polls return and under a wall
\* clock that keeps advancing: every step of the program that can be taken is
\* taken, getNextSample_* returns, and time.time() grows.  Whether initialize()
\* is called at all is left to the caller.
Fairness ==
    /\ WF_position(default_sample)
    /\ WF_position(set_subscribe_topic)
    /\ WF_position(getNextSample)
    /\ WF_position(check_timeout)
    /\ WF_position(Tick)

FairSpec == Spec /\ Fairness

-----------------------------------------------------------------------------
(* run() *)

\* The calls of run() followed
MaxRuns == 1

\* A tree with active proposals: one General and two Sequence proposals
ActiveConfig ==
    [InitConfig EXCEPT !.science.general_props.active = <<<<"WideFastDeep">>>>,
                       !.science.sequence_props.active =
                           <<<<"DeepDrilling", "Rolling">>>>]

\* The statements of run() below its first one.  self.sal.put(...) of the ten
\* buffers in turn, up to the first one that does not exist
RECURSIVE put_samples(_, _)
put_samples(cnf, k) ==
    IF k > 10 THEN [ error |-> "None", put |-> <<>> ]
    ELSE IF configure[k] \notin DOMAIN cnf
    THEN [ error |-> "AttributeError", put |-> <<>> ]
    ELSE LET rest == put_samples(cnf, k + 1)
         IN [ rest EXCEPT !.put = <<[topic |-> configure[k], prop_id |-> 0]>> \o @ ]

\* One topic per active proposal, numbered from num_proposals on, or one topic
\* with prop_id -1 when active is None
put_proposals(active, name, num_proposals_) ==
    IF active # <<>>
    THEN [ i \in 1..Len(active[1]) |->
             [topic |-> name, prop_id |-> num_proposals_ + i - 1] ]
    ELSE <<[topic |-> name, prop_id |-> 0 - 1]>>

run_body(sal_, cnf, cfg) ==
    IF sal_ = "None" THEN [ error |-> "AttributeError", put |-> <<>> ]
    ELSE LET samples == put_samples(cnf, 1)
             generals == put_proposals(cfg.science.general_props.active,
                                       "generalPropConfig", 1)
             sequences == put_proposals(cfg.science.sequence_props.active,
                                        "sequencePropConfig",
                                        1 + (IF cfg.science.general_props.active # <<>>
                                             THEN Len(generals) ELSE 0))
         IN IF samples.error # "None" THEN samples
            ELSE [ error |-> "None", put |-> samples.put \o generals \o sequences ]

\* run() with its first statement skipped
deprecated_mutant == FALSE

\* if True:
deprecated == TRUE

\* run(): raise DeprecationWarning, ahead of every other statement
run ==
    /\ pc \in {"constructed", "done", "raised"}
    /\ hist.runs < MaxRuns
    /\ LET out == IF deprecated
                  THEN [ error |-> "DeprecationWarning", put |-> <<>> ]
                  ELSE run_body(sal, conf, config)
       IN hist' = [hist EXCEPT !.runs = @ + 1,
                                !.run_error = out.error,
                                !.put = @ \o out.put]
    /\ UNCHANGED <<no_dds_comm, sal, config, conf, num_proposals, survey_topology,
                   pc, cur, lasttime, now, error>>
    /\ UNCHANGED encVars

\* __init__, and the tree that will be handed to initialize(): with or without
\* active proposals
InitRun ==
    /\ no_dds_comm \in BOOLEAN
    /\ sal = "None"
    /\ config \in {InitConfig, ActiveConfig}
    /\ conf = Empty
    /\ num_proposals = <<>>
    /\ survey_topology = Empty
    /\ pc = "constructed"
    /\ cur = 1
    /\ lasttime = 0
    /\ now = 0
    /\ error = "None"
    /\ hist = InitHist
    /\ IdleEncoder

NextRun ==
    \/ initialize
    \/ default_sample
    \/ set_subscribe_topic
    \/ getNextSample
    \/ check_timeout
    \/ Tick
    \/ run

SpecRun == InitRun /\ [][NextRun]_vars

-----------------------------------------------------------------------------
(* General proposals and their wire record *)

\* An optional value: <<>> is None, <<v>> is v.  A ConfigDictField is an
\* optional sequence of [key, val] items in the dict's iteration order.
None == <<>>
Some(v) == <<v>>
val(o) == o[1]

\* dict.values() and len(dict)
values(d) == [i \in 1..Len(val(d)) |-> val(d)[i].val]
len(d) == Len(val(d))

\* The dict that holds vs under the keys 0, 1, ...
Dict(vs) == Some([i \in 1..Len(vs) |-> [key |-> i - 1, val |-> vs[i]]])

\* Largest numbers of filters, region selections and exclusion selections of
\* the proposals encoded
MaxFilters == 2
MaxSelections == 2
MaxExclusions == 1

\* Sequences over S of length at most n
RECURSIVE SeqUpTo(_, _)
SeqUpTo(S, n) ==
    IF n = 0 THEN {<<>>}
    ELSE LET shorter == SeqUpTo(S, n - 1)
         IN  shorter \cup { Append(q, x) : q \in shorter, x \in S }

\* GeneralBandFilter instances
Filters ==
    { [ name |-> <<"u">>, num_visits |-> 75, num_grouped_visits |-> 1,
        max_grouped_visits |-> 2, bright_limit |-> 21, dark_limit |-> 30,
        max_seeing |-> 2, exposures |-> <<15, 16>> ],
      [ name |-> <<"g">>, num_visits |-> 105, num_grouped_visits |-> 2,
        max_grouped_visits |-> 3, bright_limit |-> 22, dark_limit |-> 31,
        max_seeing |-> 3, exposures |-> <<34>> ],
      [ name |-> <<"r", ",", "i">>, num_visits |-> 240, num_grouped_visits |-> 3,
        max_grouped_visits |-> 4, bright_limit |-> 23, dark_limit |-> 32,
        max_seeing |-> 4, exposures |-> <<>> ] }

\* Selection instances
Selections ==
    { [ limit_type |-> <<"R", "A">>, minimum_limit |-> 0, maximum_limit |-> 10,
        bounds_limit |-> 0 ],
      [ limit_type |-> <<"G", "P">>, minimum_limit |-> 1, maximum_limit |-> 90,
        bounds_limit |-> 5 ] }

Exclusions ==
    { [ limit_type |-> <<"G", "P">>, minimum_limit |-> 0, maximum_limit |-> 10,
        bounds_limit |-> 90 ],
      [ limit_type |-> <<"D", "e", "c">>, minimum_limit |-> 0 - 5, maximum_limit |-> 5,
        bounds_limit |-> 0 ] }

\* The combiner lists that go with n selections
Combiners(n) ==
    IF n < 2 THEN {<<>>}
    ELSE { q \in SeqUpTo({<<"a", "n", "d">>, <<"o", "r">>}, n - 1) : Len(q) = n - 1 }

\* The time ranges and selection mappings that go with n selections: none,
\* one range taking every selection, one range per selection, or a range
\* taking every selection followed by a range taking the last one
TimeRanges(n) ==
    {[ time_ranges |-> None, selection_mapping |-> None ]} \cup
    IF n = 0 THEN {}
    ELSE { [ time_ranges |-> Dict(<<[start |-> 1, end |-> 1825]>>),
             selection_mapping |-> Dict(<<[indexes |-> [i \in 1..n |-> i - 1]]>>) ],
           [ time_ranges |-> Dict([i \in 1..n |-> [start |-> i, end |-> i + 1]]),
             selection_mapping |-> Dict([i \in 1..n |-> [indexes |-> <<i - 1>>]]) ],
           [ time_ranges |-> Dict(<<[start |-> 1, end |-> 900],
                                    [start |-> 900, end |-> 1825]>>),
             selection_mapping |-> Dict(<<[indexes |-> [i \in 1..n |-> i - 1]],
                                          [indexes |-> <<n - 1>>]>>) ] }

\* An optional dict of at most n values of S
OptDict(S, n) == {None} \cup { Dict(q) : q \in SeqUpTo(S, n) }

\* General configurations: the combiners and the time ranges fit the
\* number of selections
GeneralWith(sel, comb, tr, exc, fil) ==
    [ name |-> Some(<<"W", "F", "D">>),
      sky_region |-> [ selections |-> sel, combiners |-> comb,
                       time_ranges |-> tr.time_ranges,
                       selection_mapping |-> tr.selection_mapping ],
      sky_exclusion |-> [ selections |-> exc, dec_window |-> 90 ],
      sky_nightly_bounds |-> [ twilight_boundary |-> 0 - 12, delta_lst |-> 60 ],
      sky_constraints |-> [ max_airmass |-> 2, max_cloud |-> 1,
                            min_distance_moon |-> 30, exclude_planets |-> TRUE ],
      filters |-> fil,
      scheduling |-> [ max_num_targets |-> 100, accept_serendipity |-> FALSE,
                       accept_consecutive_visits |-> TRUE, airmass_bonus |-> 1,
                       hour_angle_bonus |-> 2, hour_angle_max |-> 9,
                       restrict_grouped_visits |-> TRUE, time_interval |-> 1800,
                       time_window_start |-> 3, time_window_max |-> 4,
                       time_window_end |-> 5, time_weight |-> 6,
                       field_revisit_limit |-> 0 ] ]

\* Slots of every array of the wire record: enough for the proposals above
ArrayCap == (MaxFilters + MaxSelections + MaxExclusions + 1) * 2

Slots == 0..(ArrayCap - 1)

ZeroArray == [i \in Slots |-> 0]

\* The generalPropConfig record as the transport hands it out
FreshTopic ==
    [ name |-> <<>>, twilightBoundary |-> 0, deltaLst |-> 0, decWindow |-> 0,
      maxAirmass |-> 0, maxCloud |-> 0, minDistanceMoon |-> 0,
      excludePlanets |-> FALSE,
      numRegionSelections |-> 0, regionTypes |-> <<>>, regionMinimums |-> ZeroArray,
      regionMaximums |-> ZeroArray, regionBounds |-> ZeroArray,
      regionCombiners |-> <<>>,
      numTimeRanges |-> 0, timeRangeStarts |-> ZeroArray, timeRangeEnds |-> ZeroArray,
      numSelectionMappings |-> ZeroArray, selectionMappings |-> ZeroArray,
      numExclusionSelections |-> 0, exclusionTypes |-> <<>>,
      exclusionMinimums |-> ZeroArray, exclusionMaximums |-> ZeroArray,
      exclusionBounds |-> ZeroArray,
      numFilters |-> 0, filterNames |-> <<>>, numVisits |-> ZeroArray,
      numGroupedVisits |-> ZeroArray, maxGroupedVisits |-> ZeroArray,
      brightLimit |-> ZeroArray, darkLimit |-> ZeroArray, maxSeeing |-> ZeroArray,
      numFilterExposures |-> ZeroArray, exposures |-> ZeroArray,
      maxNumTargets |-> 0, acceptSerendipity |-> FALSE,
      acceptConsecutiveVisits |-> FALSE, airmassBonus |-> 0, hourAngleBonus |-> 0,
      hourAngleMax |-> 0, restrictGroupedVisits |-> FALSE, timeInterval |-> 0,
      timeWindowStart |-> 0, timeWindowMax |-> 0, timeWindowEnd |-> 0,
      timeWeight |-> 0, fieldRevisitLimit |-> 0 ]

\* for i, v in enumerate(vs): arr[i] = v[field]
RECURSIVE store_each(_, _, _)
store_each(arr, xs, i) ==
    IF i >= Len(xs) THEN arr
    ELSE store_each([arr EXCEPT ![i] = xs[i + 1]], xs, i + 1)

\* [f(x) for x in xs] for a record field
Field(xs, f) == [i \in 1..Len(xs) |-> xs[i][f]]

\* for x in xs: arr[index] = x; index += 1     (returns the array)
RECURSIVE store_running(_, _, _)
store_running(arr, xs, index) ==
    IF xs = <<>> THEN arr
    ELSE store_running([arr EXCEPT ![index] = Head(xs)], Tail(xs), index + 1)

\* The region selection block of set_topic
set_region_selections(self, tp) ==
    LET num_region_selections ==
            IF self.sky_region.selections # None THEN len(self.sky_region.selections)
            ELSE 0
        t1 == [tp EXCEPT !.numRegionSelections = num_region_selections]
        vs == values(self.sky_region.selections)
        t2 == IF num_region_selections # 0
              THEN [t1 EXCEPT
                      !.regionMinimums = store_each(@, Field(vs, "minimum_limit"), 0),
                      !.regionMaximums = store_each(@, Field(vs, "maximum_limit"), 0),
                      !.regionBounds = store_each(@, Field(vs, "bounds_limit"), 0),
                      !.regionTypes = join(Field(vs, "limit_type"), ",")]
              ELSE t1
    IN [t2 EXCEPT !.regionCombiners = join(self.sky_region.combiners, ",")]

\* The time range block of set_topic
set_time_ranges(self, tp) ==
    LET num_time_ranges ==
            IF self.sky_region.time_ranges # None THEN len(self.sky_region.time_ranges)
            ELSE 0
        t1 == [tp EXCEPT !.numTimeRanges = num_time_ranges]
        vs == values(self.sky_region.time_ranges)
    IN IF num_time_ranges # 0
       THEN [t1 EXCEPT !.timeRangeStarts = store_each(@, Field(vs, "start"), 0),
                       !.timeRangeEnds = store_each(@, Field(vs, "end"), 0)]
       ELSE t1

\* selection_mapping_loop with the running index restarting at 0 for every
\* entry
RECURSIVE selection_mapping_loop_restart(_, _, _, _)
selection_mapping_loop_restart(tp, vs, i, selection_index) ==
    IF i >= Len(vs) THEN tp
    ELSE LET v == vs[i + 1]
         IN selection_mapping_loop_restart(
               [tp EXCEPT !.numSelectionMappings[i] = Len(v.indexes),
                          !.selectionMappings = store_running(@, v.indexes, 0)],
               vs, i + 1, 0)

\* The loop over selection_mapping.values(): i counts the entries done,
\* selection_index runs on across entries
RECURSIVE selection_mapping_loop(_, _, _, _)
selection_mapping_loop(tp, vs, i, selection_index) ==
    IF i >= Len(vs) THEN tp
    ELSE LET v == vs[i + 1]
         IN selection_mapping_loop(
               [tp EXCEPT !.numSelectionMappings[i] = Len(v.indexes),
                          !.selectionMappings =
                              store_running(@, v.indexes, selection_index)],
               vs, i + 1, selection_index + Len(v.indexes))

\* The selection mapping block of set_topic
set_selection_mappings(self, tp) ==
    LET num_selection_mappings ==
            IF self.sky_region.selection_mapping # None
            THEN len(self.sky_region.selection_mapping)
            ELSE 0
    IN IF num_selection_mappings # 0
       THEN selection_mapping_loop(tp, values(self.sky_region.selection_mapping), 0, 0)
       ELSE tp

\* set_exclusion_selections with the count taken from the region selections
set_exclusion_selections_mutant(self, tp) ==
    LET num_exclusion_selections ==
            IF self.sky_region.selections # None
            THEN len(self.sky_region.selections)
            ELSE 0
        t1 == [tp EXCEPT !.numExclusionSelections = num_exclusion_selections]
        vs == IF self.sky_exclusion.selections # None
              THEN values(self.sky_exclusion.selections) ELSE <<>>
    IN IF num_exclusion_selections # 0
       THEN [t1 EXCEPT
               !.exclusionMinimums = store_each(@, Field(vs, "minimum_limit"), 0),
               !.exclusionMaximums = store_each(@, Field(vs, "maximum_limit"), 0),
               !.exclusionBounds = store_each(@, Field(vs, "bounds_limit"), 0),
               !.exclusionTypes = join(Field(vs, "limit_type"), ",")]
       ELSE t1

\* The exclusion selection block of set_topic
set_exclusion_selections(self, tp) ==
    LET num_exclusion_selections ==
            IF self.sky_exclusion.selections # None
            THEN len(self.sky_exclusion.selections)
            ELSE 0
        t1 == [tp EXCEPT !.numExclusionSelections = num_exclusion_selections]
        vs == values(self.sky_exclusion.selections)
    IN IF num_exclusion_selections # 0
       THEN [t1 EXCEPT
               !.exclusionMinimums = store_each(@, Field(vs, "minimum_limit"), 0),
               !.exclusionMaximums = store_each(@, Field(vs, "maximum_limit"), 0),
               !.exclusionBounds = store_each(@, Field(vs, "bounds_limit"), 0),
               !.exclusionTypes = join(Field(vs, "limit_type"), ",")]
       ELSE t1

\* filter_loop with the per-filter values stored at the running exposure
\* index instead of the filter's slot
RECURSIVE filter_loop_mutant(_, _, _, _)
filter_loop_mutant(tp, vs, i, exp_index) ==
    IF i >= Len(vs) THEN tp
    ELSE LET v == vs[i + 1]
         IN filter_loop_mutant(
               [tp EXCEPT !.numVisits[exp_index] = v.num_visits,
                          !.numGroupedVisits[exp_index] = v.num_grouped_visits,
                          !.maxGroupedVisits[exp_index] = v.max_grouped_visits,
                          !.brightLimit[exp_index] = v.bright_limit,
                          !.darkLimit[exp_index] = v.dark_limit,
                          !.maxSeeing[exp_index] = v.max_seeing,
                          !.numFilterExposures[exp_index] = Len(v.exposures),
                          !.exposures = store_running(@, v.exposures, exp_index)],
               vs, i + 1, exp_index + Len(v.exposures))

\* filter_loop with the exposure index restarting at 0 for every filter
RECURSIVE filter_loop_restart(_, _, _, _)
filter_loop_restart(tp, vs, i, exp_index) ==
    IF i >= Len(vs) THEN tp
    ELSE LET v == vs[i + 1]
         IN filter_loop_restart(
               [tp EXCEPT !.numVisits[i] = v.num_visits,
                          !.numGroupedVisits[i] = v.num_grouped_visits,
                          !.maxGroupedVisits[i] = v.max_grouped_visits,
                          !.brightLimit[i] = v.bright_limit,
                          !.darkLimit[i] = v.dark_limit,
                          !.maxSeeing[i] = v.max_seeing,
                          !.numFilterExposures[i] = Len(v.exposures),
                          !.exposures = store_running(@, v.exposures, 0)],
               vs, i + 1, 0)

\* The loop over filters.values(): i is the filter's slot, exp_index runs on
\* across filters
RECURSIVE filter_loop(_, _, _, _)
filter_loop(tp, vs, i, exp_index) ==
    IF i >= Len(vs) THEN tp
    ELSE LET v == vs[i + 1]
         IN filter_loop(
               [tp EXCEPT !.numVisits[i] = v.num_visits,
                          !.numGroupedVisits[i] = v.num_grouped_visits,
                          !.maxGroupedVisits[i] = v.max_grouped_visits,
                          !.brightLimit[i] = v.bright_limit,
                          !.darkLimit[i] = v.dark_limit,
                          !.maxSeeing[i] = v.max_seeing,
                          !.numFilterExposures[i] = Len(v.exposures),
                          !.exposures = store_running(@, v.exposures, exp_index)],
               vs, i + 1, exp_index + Len(v.exposures))

\* The filter block of set_topic
set_filters(self, tp) ==
    LET t1 == [tp EXCEPT !.numFilters =
                   IF self.filters # None THEN len(self.filters) ELSE 0]
    IN IF t1.numFilters # 0
       THEN [filter_loop(t1, values(self.filters), 0, 0) EXCEPT
               !.filterNames = join(Field(values(self.filters), "name"), ",")]
       ELSE t1

\* The scalar assignments at the head of set_topic
set_head(self, tp) ==
    [tp EXCEPT
       !.name = IF self.name # None THEN val(self.name) ELSE <<"N", "o", "n", "e">>,
       !.twilightBoundary = self.sky_nightly_bounds.twilight_boundary,
       !.deltaLst = self.sky_nightly_bounds.delta_lst,
       !.decWindow = self.sky_exclusion.dec_window,
       !.maxAirmass = self.sky_constraints.max_airmass,
       !.maxCloud = self.sky_constraints.max_cloud,
       !.minDistanceMoon = self.sky_constraints.min_distance_moon,
       !.excludePlanets = self.sky_constraints.exclude_planets]

\* The scheduling assignments at the end of set_topic
set_scheduling(self, tp) ==
    [tp EXCEPT
       !.maxNumTargets = self.scheduling.max_num_targets,
       !.acceptSerendipity = self.scheduling.accept_serendipity,
       !.acceptConsecutiveVisits = self.scheduling.accept_consecutive_visits,
       !.airmassBonus = self.scheduling.airmass_bonus,
       !.hourAngleBonus = self.scheduling.hour_angle_bonus,
       !.hourAngleMax = self.scheduling.hour_angle_max,
       !.restrictGroupedVisits = self.scheduling.restrict_grouped_visits,
       !.timeInterval = self.scheduling.time_interval,
       !.timeWindowStart = self.scheduling.time_window_start,
       !.timeWindowMax = self.scheduling.time_window_max,
       !.timeWindowEnd = self.scheduling.time_window_end,
       !.timeWeight = self.scheduling.time_weight,
       !.fieldRevisitLimit = self.scheduling.field_revisit_limit]

\* General.set_topic(topic): the record with the proposal written into it
General_set_topic(self, tp) ==
    set_scheduling(self,
      set_filters(self,
        set_exclusion_selections(self,
          set_selection_mappings(self,
            set_time_ranges(self,
              set_region_selections(self,
                set_head(self, tp)))))))

\* A record that carries an earlier proposal
UsedTopic ==
    General_set_topic(
        GeneralWith(Dict(<<CHOOSE x \in Selections : x.limit_type = <<"G", "P">>>>),
                    <<>>,
                    [time_ranges |-> None, selection_mapping |-> None],
                    Dict(<<CHOOSE x \in Exclusions : x.limit_type = <<"G", "P">>>>),
                    Dict(<<CHOOSE x \in Filters : x.name = <<"g">>,
                           CHOOSE x \in Filters : x.name = <<"u">>>>)),
        FreshTopic)

\* A record that carries an earlier proposal with time ranges: the first
\* range takes both selections, the second the last one
MappedTopic ==
    General_set_topic(
        GeneralWith(Dict(<<CHOOSE x \in Selections : x.limit_type = <<"R", "A">>,
                           CHOOSE x \in Selections : x.limit_type = <<"G", "P">>>>),
                    <<<<"o", "r">>>>,
                    [time_ranges |-> Dict(<<[start |-> 1, end |-> 900],
                                            [start |-> 900, end |-> 1825]>>),
                     selection_mapping |-> Dict(<<[indexes |-> <<0, 1>>],
                                                  [indexes |-> <<1>>]>>)],
                    None, None),
        FreshTopic)

\* An encoder run starts with a proposal and the record to fill
InitGeneral ==
    /\ \E sel \in OptDict(Selections, MaxSelections),
          exc \in OptDict(Exclusions, MaxExclusions),
          fil \in OptDict(Filters, MaxFilters) :
          \E comb \in Combiners(IF sel = None THEN 0 ELSE len(sel)),
             tr \in TimeRanges(IF sel = None THEN 0 ELSE len(sel)) :
             general = GeneralWith(sel, comb, tr, exc, fil)
    /\ topic \in {FreshTopic, UsedTopic, MappedTopic}
    /\ gpc = "ready"

\* No communicator takes part in the encoder's specification.
IdleComm ==
    /\ no_dds_comm = FALSE
    /\ sal = "None"
    /\ config = InitConfig
    /\ conf = Empty
    /\ num_proposals = <<>>
    /\ survey_topology = Empty
    /\ pc = "off"
    /\ cur = 1
    /\ lasttime = 0
    /\ now = 0
    /\ error = "None"
    /\ hist = InitHist

\* general_config.set_topic(topic)
set_topic ==
    /\ gpc = "ready"
    /\ topic' = General_set_topic(general, topic)
    /\ gpc' = "encoded"
    /\ UNCHANGED general
    /\ UNCHANGED <<seqVars, fieldVars>>
    /\ UNCHANGED commVars

NextGeneral == set_topic

\* No Sequence proposal takes part
IdleSequence ==
    /\ sequence = <<>>
    /\ stopic = <<>>
    /\ spc = "off"

\* No proposal_fields call takes part
IdleFields ==
    /\ fd = {}
    /\ ids = <<>>
    /\ fpc = "off"

InitEncoder == InitGeneral /\ IdleComm /\ IdleSequence /\ IdleFields

SpecGeneral == InitEncoder /\ [][NextGeneral]_vars

-----------------------------------------------------------------------------
(* Sequence proposals and their wire record *)

\* dict.items() and the dict that holds vs under the given keys, in that
\* iteration order
items(d) == val(d)
DictOf(keys, vs) == Some([i \in 1..Len(vs) |-> [key |-> keys[i], val |-> vs[i]]])

\* Largest numbers of sub-sequences, of master sub-sequences and of
\* sub-sequences nested in one master of the proposals encoded
MaxSubSequences == 2
MaxMasters == 2
MaxNested == 2

\* SubSequence.get_filter_string(): the filter names joined by ','
get_filter_string(self) == join(self.filters, ",")

\* SubSequence instances: one visit count per filter
SubSequences ==
    { [ name |-> <<"a">>, filters |-> << <<"g">>, <<"r">> >>,
        visits_per_filter |-> <<10, 11>>, num_events |-> 30, num_max_missed |-> 2,
        time_interval |-> 100, time_window_start |-> 1, time_window_max |-> 2,
        time_window_end |-> 3, time_weight |-> 4 ],
      [ name |-> <<"b">>, filters |-> << <<"i">>, <<"z">>, <<"y">> >>,
        visits_per_filter |-> <<20, 21, 22>>, num_events |-> 40, num_max_missed |-> 3,
        time_interval |-> 200, time_window_start |-> 5, time_window_max |-> 6,
        time_window_end |-> 7, time_weight |-> 8 ],
      [ name |-> <<"c">>, filters |-> << <<"u">> >>,
        visits_per_filter |-> <<5>>, num_events |-> 50, num_max_missed |-> 4,
        time_interval |-> 300, time_window_start |-> 9, time_window_max |-> 10,
        time_window_end |-> 11, time_weight |-> 12 ] }

SubSequenceNamed(n) == CHOOSE x \in SubSequences : x.name = n

\* The sub-sequences nested in a master: the first k of d, e, d, e, ...
NestedSubSequences(k) ==
    Dict([j \in 1..k |->
            IF j % 2 = 1
            THEN [SubSequenceNamed(<<"a">>) EXCEPT !.name = <<"d">>, !.num_events = 60 + j]
            ELSE [SubSequenceNamed(<<"b">>) EXCEPT !.name = <<"e">>, !.num_events = 60 + j]])

\* The MasterSubSequence that nests k sub-sequences
MasterSubSequence(k) ==
    [ name |-> <<"m", ToString(k)>>, sub_sequences |-> NestedSubSequences(k),
      num_events |-> 70 + k, num_max_missed |-> 1 + k, time_interval |-> 400 + k,
      time_window_start |-> 13 + k, time_window_max |-> 14 + k,
      time_window_end |-> 15 + k, time_weight |-> 16 + k ]

MasterSubSequences == { MasterSubSequence(k) : k \in 0..MaxNested }

\* BandFilter instances
BandFilters ==
    { [ name |-> <<"u">>, bright_limit |-> 21, dark_limit |-> 30, max_seeing |-> 2,
        exposures |-> <<15, 16>> ],
      [ name |-> <<"g">>, bright_limit |-> 22, dark_limit |-> 31, max_seeing |-> 3,
        exposures |-> <<34>> ] }

\* The keys n entries are stored under: 0..n-1, 1..n, or n-1 down to 0
KeyOrders(n) ==
    { [i \in 1..n |-> i - 1], [i \in 1..n |-> i], [i \in 1..n |-> n - i] }

\* The int-keyed dicts of at most n values of S, and None
KeyedDicts(S, n) ==
    {None} \cup { DictOf(ks, q) : ks \in KeyOrders(n), q \in SeqUpTo(S, n) }

\* A Sequence configuration
SequenceWith(regions, subs, masters, fil) ==
    [ name |-> Some(<<"D", "D">>),
      sky_user_regions |-> regions,
      sky_exclusion |-> [ dec_window |-> 90 ],
      sky_nightly_bounds |-> [ twilight_boundary |-> 0 - 12, delta_lst |-> 60 ],
      sky_constraints |-> [ max_airmass |-> 2, max_cloud |-> 1,
                            min_distance_moon |-> 30, exclude_planets |-> TRUE ],
      sub_sequences |-> subs,
      master_sub_sequences |-> masters,
      filters |-> fil,
      scheduling |-> [ max_num_targets |-> 100, accept_serendipity |-> FALSE,
                       accept_consecutive_visits |-> TRUE, airmass_bonus |-> 1,
                       hour_angle_bonus |-> 2, hour_angle_max |-> 9,
                       restart_lost_sequences |-> TRUE,
                       restart_complete_sequences |-> FALSE,
                       max_visits_goal |-> 250000 ] ]

\* Slots of every array of the sequencePropConfig record: enough for the
\* proposals above
SequenceCap == (MaxMasters + 1) * (MaxNested + 1) * 3 + (MaxSubSequences + MaxFilters) * 3

SequenceSlots == 0..(SequenceCap - 1)

ZeroSequenceArray == [i \in SequenceSlots |-> 0]

\* The sequencePropConfig record as the transport hands it out
FreshSequenceTopic ==
    [ name |-> <<>>, twilightBoundary |-> 0, deltaLst |-> 0, decWindow |-> 0,
      maxAirmass |-> 0, maxCloud |-> 0, minDistanceMoon |-> 0,
      excludePlanets |-> FALSE,
      numUserRegions |-> 0, userRegionIds |-> ZeroSequenceArray,
      numSubSequences |-> 0, subSequenceNames |-> <<>>, subSequenceFilters |-> <<>>,
      numSubSequenceFilters |-> ZeroSequenceArray, numSubSequenceFilterVisits |-> ZeroSequenceArray,
      numSubSequenceEvents |-> ZeroSequenceArray, numSubSequenceMaxMissed |-> ZeroSequenceArray,
      subSequenceTimeIntervals |-> ZeroSequenceArray,
      subSequenceTimeWindowStarts |-> ZeroSequenceArray,
      subSequenceTimeWindowMaximums |-> ZeroSequenceArray,
      subSequenceTimeWindowEnds |-> ZeroSequenceArray, subSequenceTimeWeights |-> ZeroSequenceArray,
      numMasterSubSequences |-> 0, masterSubSequenceNames |-> <<>>,
      numNestedSubSequences |-> ZeroSequenceArray, numMasterSubSequenceEvents |-> ZeroSequenceArray,
      numMasterSubSequenceMaxMissed |-> ZeroSequenceArray,
      masterSubSequenceTimeIntervals |-> ZeroSequenceArray,
      masterSubSequenceTimeWindowStarts |-> ZeroSequenceArray,
      masterSubSequenceTimeWindowMaximums |-> ZeroSequenceArray,
      masterSubSequenceTimeWindowEnds |-> ZeroSequenceArray,
      masterSubSequenceTimeWeights |-> ZeroSequenceArray,
      nestedSubSequenceNames |-> <<>>, nestedSubSequenceFilters |-> <<>>,
      numNestedSubSequenceFilters |-> ZeroSequenceArray,
      num_nested_sub_sequence_filter_visits |-> ZeroSequenceArray,
      numNestedSubSequenceEvents |-> ZeroSequenceArray,
      numNestedSubSequenceMaxMissed |-> ZeroSequenceArray,
      nestedSubSequenceTimeIntervals |-> ZeroSequenceArray,
      nestedSubSequenceTimeWindowStarts |-> ZeroSequenceArray,
      nestedSubSequenceTimeWindowMaximums |-> ZeroSequenceArray,
      nestedSubSequenceTimeWindowEnds |-> ZeroSequenceArray,
      nestedSubSequenceTimeWeights |-> ZeroSequenceArray,
      numFilters |-> 0, filterNames |-> <<>>, brightLimit |-> ZeroSequenceArray,
      darkLimit |-> ZeroSequenceArray, maxSeeing |-> ZeroSequenceArray,
      numFilterExposures |-> ZeroSequenceArray, exposures |-> ZeroSequenceArray,
      maxNumTargets |-> 0, acceptSerendipity |-> FALSE,
      acceptConsecutiveVisits |-> FALSE, airmassBonus |-> 0, hourAngleBonus |-> 0,
      hourAngleMax |-> 0, restartLostSequences |-> FALSE,
      restartCompleteSequences |-> FALSE, maxVisitsGoal |-> 0 ]

\* The scalar assignments at the head of Sequence.set_topic
set_sequence_head(self, tp) ==
    [tp EXCEPT
       !.name = IF self.name # None THEN val(self.name) ELSE <<"N", "o", "n", "e">>,
       !.twilightBoundary = self.sky_nightly_bounds.twilight_boundary,
       !.deltaLst = self.sky_nightly_bounds.delta_lst,
       !.decWindow = self.sky_exclusion.dec_window,
       !.maxAirmass = self.sky_constraints.max_airmass,
       !.maxCloud = self.sky_constraints.max_cloud,
       !.minDistanceMoon = self.sky_constraints.min_distance_moon,
       !.excludePlanets = self.sky_constraints.exclude_planets]

\* The user region block of set_topic
set_user_regions(self, tp) ==
    [tp EXCEPT !.numUserRegions = Len(self.sky_user_regions),
               !.userRegionIds = store_each(@, self.sky_user_regions, 0)]

\* The loop over sub_sequences.items(): every per-sub-sequence array is
\* written at slot i, the key of the item; filter_visit_index runs on across
\* sub-sequences
RECURSIVE sub_sequence_loop(_, _, _)
sub_sequence_loop(tp, its, filter_visit_index) ==
    IF its = <<>> THEN tp
    ELSE LET i == Head(its).key
             sub_sequence == Head(its).val
         IN sub_sequence_loop(
               [tp EXCEPT
                  !.numSubSequenceFilters[i] = Len(sub_sequence.filters),
                  !.numSubSequenceFilterVisits =
                      store_running(@, sub_sequence.visits_per_filter,
                                    filter_visit_index),
                  !.numSubSequenceEvents[i] = sub_sequence.num_events,
                  !.numSubSequenceMaxMissed[i] = sub_sequence.num_max_missed,
                  !.subSequenceTimeIntervals[i] = sub_sequence.time_interval,
                  !.subSequenceTimeWindowStarts[i] = sub_sequence.time_window_start,
                  !.subSequenceTimeWindowMaximums[i] = sub_sequence.time_window_max,
                  !.subSequenceTimeWindowEnds[i] = sub_sequence.time_window_end,
                  !.subSequenceTimeWeights[i] = sub_sequence.time_weight],
               Tail(its),
               filter_visit_index + Len(sub_sequence.visits_per_filter))

\* [x.get_filter_string() for x in xs]
filter_strings(xs) == [j \in 1..Len(xs) |-> get_filter_string(xs[j])]

\* The sub-sequence block of set_topic
set_sub_sequences(self, tp) ==
    LET num_sub_sequences ==
            IF self.sub_sequences # None THEN len(self.sub_sequences) ELSE 0
        t1 == [tp EXCEPT !.numSubSequences = num_sub_sequences]
    IN IF t1.numSubSequences # 0
       THEN [sub_sequence_loop(t1, items(self.sub_sequences), 0) EXCEPT
               !.subSequenceNames =
                   join(Field(values(self.sub_sequences), "name"), ","),
               !.subSequenceFilters =
                   join(filter_strings(values(self.sub_sequences)), ",")]
       ELSE t1

\* nested_sub_sequence_loop with the visit counts of the nested sub-sequences
\* stored in the array of the top-level ones
RECURSIVE nested_sub_sequence_loop_mutant(_, _, _, _)
nested_sub_sequence_loop_mutant(tp, vs, nss_index, filter_visit_index) ==
    IF vs = <<>> THEN tp
    ELSE LET sub_sequence == Head(vs)
         IN nested_sub_sequence_loop_mutant(
               [tp EXCEPT
                  !.numNestedSubSequenceFilters[nss_index] = Len(sub_sequence.filters),
                  !.numSubSequenceFilterVisits =
                      store_running(@, sub_sequence.visits_per_filter,
                                    filter_visit_index),
                  !.numNestedSubSequenceEvents[nss_index] = sub_sequence.num_events,
                  !.numNestedSubSequenceMaxMissed[nss_index] =
                      sub_sequence.num_max_missed,
                  !.nestedSubSequenceTimeIntervals[nss_index] =
                      sub_sequence.time_interval,
                  !.nestedSubSequenceTimeWindowStarts[nss_index] =
                      sub_sequence.time_window_start,
                  !.nestedSubSequenceTimeWindowMaximums[nss_index] =
                      sub_sequence.time_window_max,
                  !.nestedSubSequenceTimeWindowEnds[nss_index] =
                      sub_sequence.time_window_end,
                  !.nestedSubSequenceTimeWeights[nss_index] = sub_sequence.time_weight],
               Tail(vs), nss_index + 1,
               filter_visit_index + Len(sub_sequence.visits_per_filter))

\* The loop over the sub-sequences nested in one master: every nested array
\* is written at nss_index, which runs on across masters, as does
\* filter_visit_index
RECURSIVE nested_sub_sequence_loop(_, _, _, _)
nested_sub_sequence_loop(tp, vs, nss_index, filter_visit_index) ==
    IF vs = <<>> THEN tp
    ELSE LET sub_sequence == Head(vs)
         IN nested_sub_sequence_loop(
               [tp EXCEPT
                  !.numNestedSubSequenceFilters[nss_index] = Len(sub_sequence.filters),
                  !.num_nested_sub_sequence_filter_visits =
                      store_running(@, sub_sequence.visits_per_filter,
                                    filter_visit_index),
                  !.numNestedSubSequenceEvents[nss_index] = sub_sequence.num_events,
                  !.numNestedSubSequenceMaxMissed[nss_index] =
                      sub_sequence.num_max_missed,
                  !.nestedSubSequenceTimeIntervals[nss_index] =
                      sub_sequence.time_interval,
                  !.nestedSubSequenceTimeWindowStarts[nss_index] =
                      sub_sequence.time_window_start,
                  !.nestedSubSequenceTimeWindowMaximums[nss_index] =
                      sub_sequence.time_window_max,
                  !.nestedSubSequenceTimeWindowEnds[nss_index] =
                      sub_sequence.time_window_end,
                  !.nestedSubSequenceTimeWeights[nss_index] = sub_sequence.time_weight],
               Tail(vs), nss_index + 1,
               filter_visit_index + Len(sub_sequence.visits_per_filter))

\* The number of visit counts of a list of sub-sequences
RECURSIVE num_filter_visits(_)
num_filter_visits(vs) ==
    IF vs = <<>> THEN 0
    ELSE Len(Head(vs).visits_per_filter) + num_filter_visits(Tail(vs))

\* The loop over master_sub_sequences.items(): the master arrays are written
\* at slot i, the key of the item
RECURSIVE master_sub_sequence_loop(_, _, _, _)
master_sub_sequence_loop(tp, its, nss_index, filter_visit_index) ==
    IF its = <<>> THEN tp
    ELSE LET i == Head(its).key
             master_sub_sequence == Head(its).val
             nested == values(master_sub_sequence.sub_sequences)
             t1 == [tp EXCEPT
                      !.numNestedSubSequences[i] = Len(nested),
                      !.numMasterSubSequenceEvents[i] = master_sub_sequence.num_events,
                      !.numMasterSubSequenceMaxMissed[i] =
                          master_sub_sequence.num_max_missed,
                      !.masterSubSequenceTimeIntervals[i] =
                          master_sub_sequence.time_interval,
                      !.masterSubSequenceTimeWindowStarts[i] =
                          master_sub_sequence.time_window_start,
                      !.masterSubSequenceTimeWindowMaximums[i] =
                          master_sub_sequence.time_window_max,
                      !.masterSubSequenceTimeWindowEnds[i] =
                          master_sub_sequence.time_window_end,
                      !.masterSubSequenceTimeWeights[i] =
                          master_sub_sequence.time_weight]
         IN master_sub_sequence_loop(
               nested_sub_sequence_loop(t1, nested, nss_index, filter_visit_index),
               Tail(its), nss_index + Len(nested),
               filter_visit_index + num_filter_visits(nested))

\* The sub-sequences nested in the masters, in the order the loops visit them
RECURSIVE all_nested(_)
all_nested(ms) ==
    IF ms = <<>> THEN <<>>
    ELSE values(Head(ms).sub_sequences) \o all_nested(Tail(ms))

\* The master sub-sequence block of set_topic
set_master_sub_sequences(self, tp) ==
    LET num_master_sub_sequences ==
            IF self.master_sub_sequences # None THEN len(self.master_sub_sequences)
            ELSE 0
        t1 == [tp EXCEPT !.numMasterSubSequences = num_master_sub_sequences]
        ms == values(self.master_sub_sequences)
    IN IF t1.numMasterSubSequences # 0
       THEN [master_sub_sequence_loop(t1, items(self.master_sub_sequences), 0, 0)
               EXCEPT
               !.masterSubSequenceNames = join(Field(ms, "name"), ","),
               !.nestedSubSequenceNames = join(Field(all_nested(ms), "name"), ","),
               !.nestedSubSequenceFilters =
                   join(filter_strings(all_nested(ms)), ",")]
       ELSE t1

\* The loop over filters.values() of a Sequence proposal: i is the filter's
\* slot, exp_index runs on across filters
RECURSIVE sequence_filter_loop(_, _, _, _)
sequence_filter_loop(tp, vs, i, exp_index) ==
    IF i >= Len(vs) THEN tp
    ELSE LET v == vs[i + 1]
         IN sequence_filter_loop(
               [tp EXCEPT !.brightLimit[i] = v.bright_limit,
                          !.darkLimit[i] = v.dark_limit,
                          !.maxSeeing[i] = v.max_seeing,
                          !.numFilterExposures[i] = Len(v.exposures),
                          !.exposures = store_running(@, v.exposures, exp_index)],
               vs, i + 1, exp_index + Len(v.exposures))

\* The filter block of Sequence.set_topic
set_sequence_filters(self, tp) ==
    LET t1 == [tp EXCEPT !.numFilters =
                   IF self.filters # None THEN len(self.filters) ELSE 0]
    IN IF t1.numFilters # 0
       THEN [sequence_filter_loop(t1, values(self.filters), 0, 0) EXCEPT
               !.filterNames = join(Field(values(self.filters), "name"), ",")]
       ELSE t1

\* The scheduling assignments at the end of Sequence.set_topic
set_sequence_scheduling(self, tp) ==
    [tp EXCEPT
       !.maxNumTargets = self.scheduling.max_num_targets,
       !.acceptSerendipity = self.scheduling.accept_serendipity,
       !.acceptConsecutiveVisits = self.scheduling.accept_consecutive_visits,
       !.airmassBonus = self.scheduling.airmass_bonus,
       !.hourAngleBonus = self.scheduling.hour_angle_bonus,
       !.hourAngleMax = self.scheduling.hour_angle_max,
       !.restartLostSequences = self.scheduling.restart_lost_sequences,
       !.restartCompleteSequences = self.scheduling.restart_complete_sequences,
       !.maxVisitsGoal = self.scheduling.max_visits_goal]

\* Sequence.set_topic(topic): the record with the proposal written into it
Sequence_set_topic(self, tp) ==
    set_sequence_scheduling(self,
      set_sequence_filters(self,
        set_master_sub_sequences(self,
          set_sub_sequences(self,
            set_user_regions(self,
              set_sequence_head(self, tp))))))

\* A record that carries an earlier Sequence proposal
UsedSequenceTopic ==
    Sequence_set_topic(
        SequenceWith(<<7, 8>>,
                     Dict(<<SubSequenceNamed(<<"c">>), SubSequenceNamed(<<"b">>),
                            SubSequenceNamed(<<"c">>)>>),
                     Dict(<<MasterSubSequence(1), MasterSubSequence(1)>>),
                     Dict(<<CHOOSE x \in BandFilters : x.name = <<"g">>,
                            CHOOSE x \in BandFilters : x.name = <<"g">>,
                            CHOOSE x \in BandFilters : x.name = <<"u">>>>)),
        FreshSequenceTopic)

\* The parts of a proposal that are held fixed while another part varies
SomeSubSequences ==
    {None, Dict(<<SubSequenceNamed(<<"a">>), SubSequenceNamed(<<"b">>)>>)}
SomeMasters ==
    {None, Dict(<<MasterSubSequence(MaxNested), MasterSubSequence(1)>>)}
SomeBandFilters ==
    {None, Dict(<<CHOOSE x \in BandFilters : x.name = <<"u">>,
                  CHOOSE x \in BandFilters : x.name = <<"g">>>>)}

\* A Sequence as constructed: the values of setDefaults, no filters
DefaultSequence == SequenceWith(<<>>, Dict(<<>>), Dict(<<>>), None)

\* An encoder run starts with a proposal and the record to fill
InitSequence ==
    /\ \E regions \in {<<>>, <<30, 10, 20>>} :
          \/ \E subs \in KeyedDicts(SubSequences, MaxSubSequences),
                masters \in SomeMasters, fil \in SomeBandFilters :
                sequence = SequenceWith(regions, subs, masters, fil)
          \/ \E subs \in SomeSubSequences,
                masters \in KeyedDicts(MasterSubSequences, MaxMasters),
                fil \in SomeBandFilters :
                sequence = SequenceWith(regions, subs, masters, fil)
          \/ \E subs \in SomeSubSequences, masters \in SomeMasters,
                fil \in OptDict(BandFilters, MaxFilters) :
                sequence = SequenceWith(regions, subs, masters, fil)
          \/ /\ regions = <<>>
             /\ sequence = DefaultSequence
    /\ stopic \in {FreshSequenceTopic, UsedSequenceTopic}
    /\ spc = "ready"

\* No General proposal takes part
IdleGeneral ==
    /\ general = <<>>
    /\ topic = <<>>
    /\ gpc = "off"

\* sequence_config.set_topic(topic)
set_sequence_topic ==
    /\ spc = "ready"
    /\ stopic' = Sequence_set_topic(sequence, stopic)
    /\ spc' = "encoded"
    /\ UNCHANGED sequence
    /\ UNCHANGED <<genVars, fieldVars>>
    /\ UNCHANGED commVars

\* sequence_config.setDefaults(), called on a proposal before it is encoded
\* or asked for its fields
setDefaults ==
    /\ spc \in {"ready", "called"}
    /\ sequence' = [sequence EXCEPT !.sky_user_regions = <<>>,
                                    !.sub_sequences = Dict(<<>>),
                                    !.master_sub_sequences = Dict(<<>>)]
    /\ UNCHANGED <<stopic, spc>>
    /\ UNCHANGED <<genVars, fieldVars>>
    /\ UNCHANGED commVars

NextSequence ==
    \/ set_sequence_topic
    \/ setDefaults

InitSequenceEncoder == InitSequence /\ IdleComm /\ IdleGeneral /\ IdleFields

SpecSequence == InitSequenceEncoder /\ [][NextSequence]_vars

\* Either encoder, run on its own proposal and record
InitEncoders ==
    /\ \/ InitGeneral /\ IdleSequence
       \/ InitSequence /\ IdleGeneral
    /\ IdleComm
    /\ IdleFields

NextEncoders ==
    \/ set_topic
    \/ set_sequence_topic
    \/ setDefaults

SpecEncoders == InitEncoders /\ [][NextEncoders]_vars

-----------------------------------------------------------------------------
(* The field Ids of a proposal *)

\* Largest numbers of region selections and of exclusion selections of the
\* proposals whose fields are asked for
MaxCuts == 3
MaxFieldExclusions == 2

\* d[k] of a dict: None stands for KeyError
getitem(d, k) ==
    LET its == items(d)
        hits == { j \in 1..Len(its) : its[j].key = k }
    IN IF hits = {} THEN None
       ELSE Some(its[CHOOSE j \in hits : \A h \in hits : j <= h].val)

\* l[i] of a list, negative i counting from the end: None stands for IndexError
list_getitem(l, i) ==
    IF 0 <= i /\ i < Len(l) THEN Some(l[i + 1])
    ELSE IF i < 0 /\ 0 - i <= Len(l) THEN Some(l[Len(l) + i + 1])
    ELSE None

\* The rows of a fields database: (fieldId, ra, dec, gl, gb); a field may
\* come more than once out of a query
FieldsDatabase ==
    { [ fieldId |-> 3, ra |-> 5, dec |-> 0 - 10, gl |-> 0, gb |-> 2 ],
      [ fieldId |-> 1, ra |-> 8, dec |-> 3, gl |-> 50, gb |-> 40 ],
      [ fieldId |-> 1, ra |-> 9, dec |-> 3, gl |-> 50, gb |-> 40 ],
      [ fieldId |-> 2, ra |-> 20, dec |-> 0, gl |-> 10, gb |-> 0 - 8 ],
      [ fieldId |-> 5, ra |-> 2, dec |-> 4, gl |-> 80, gb |-> 1 ],
      [ fieldId |-> 4, ra |-> 0, dec |-> 50, gl |-> 100, gb |-> 0 - 30 ] }

\* fs.select_region(region_type, start_value, end_value)
select_region(region_type, start_value, end_value) ==
    [ kind |-> "region", region_type |-> region_type,
      start_value |-> start_value, end_value |-> end_value ]

\* fs.galactic_region(maxB, minB, endL)
galactic_region(maxB, minB, endL) ==
    [ kind |-> "galactic", maxB |-> maxB, minB |-> minB, endL |-> endL ]

\* fs.combine_queries(*queries, combiners=...): the number of combiners is
\* one less than the number of queries, or RuntimeError
combine_queries(queries, combiners) ==
    IF Len(combiners) # Len(queries) - 1
    THEN [ error |-> "RuntimeError", queries |-> <<>>, combiners |-> <<>> ]
    ELSE [ error |-> "None", queries |-> queries, combiners |-> combiners ]

abs(x) == IF x < 0 THEN 0 - x ELSE x

\* Whether a row satisfies one query
matches(row, q) ==
    IF q.kind = "region"
    THEN LET v == IF q.region_type = <<"R", "A">> THEN row.ra
                  ELSE IF q.region_type = <<"D", "e", "c">> THEN row.dec
                  ELSE row.gb
         IN q.start_value <= v /\ v <= q.end_value
    ELSE \/ abs(row.gl) >= q.endL /\ abs(row.gb) <= q.minB
         \/ /\ abs(row.gl) < q.endL
            /\ abs(row.gb) * q.endL <=
                   q.maxB * q.endL - (q.maxB - q.minB) * abs(row.gl)

\* Whether a row satisfies queries joined by combiners, 'and' binding
\* tighter than 'or'
RECURSIVE satisfies(_, _, _)
satisfies(row, queries, combiners) ==
    IF \A j \in 1..Len(combiners) : combiners[j] # <<"o", "r">>
    THEN \A j \in 1..Len(queries) : matches(row, queries[j])
    ELSE LET k == CHOOSE j \in 1..Len(combiners) :
                      /\ combiners[j] = <<"o", "r">>
                      /\ \A h \in 1..(j - 1) : combiners[h] # <<"o", "r">>
         IN \/ \A j \in 1..k : matches(row, queries[j])
            \/ satisfies(row, SubSeq(queries, k + 1, Len(queries)),
                         SubSeq(combiners, k + 1, Len(combiners)))

\* fd.get_field_set(query): the rows the combined query selects
get_field_set(db, query) ==
    { row \in db : satisfies(row, query.queries, query.combiners) }

\* list(s) of a set: its members in some order
RECURSIVE list_of(_)
list_of(s) ==
    IF s = {} THEN <<>>
    ELSE LET x == CHOOSE x \in s : TRUE
         IN <<x>> \o list_of(s \ {x})

\* sorted(l) of a list of numbers: ascending, equal members kept
RECURSIVE sorted(_)
sorted(l) ==
    IF l = <<>> THEN <<>>
    ELSE LET rest == sorted(Tail(l))
             below == SelectSeq(rest, LAMBDA y : y < Head(l))
             above == SelectSeq(rest, LAMBDA y : y >= Head(l))
         IN below \o <<Head(l)>> \o above

\* for index in mapping.indexes: region_cuts.append(selections[index])
RECURSIVE append_cuts(_, _, _)
append_cuts(self, indexes, acc) ==
    IF indexes = <<>> \/ acc.error # "None" THEN acc
    ELSE LET cut == getitem(self.sky_region.selections, Head(indexes))
         IN IF cut = None
            THEN [acc EXCEPT !.error = "KeyError"]
            ELSE append_cuts(self, Tail(indexes),
                             [acc EXCEPT !.region_cuts = Append(@, val(cut))])

\* selection_mapping_items with "or" appended after the last group as well
RECURSIVE selection_mapping_items_mutant(_, _, _, _)
selection_mapping_items_mutant(self, its, num_selections, acc) ==
    IF its = <<>> \/ acc.error # "None" THEN acc
    ELSE LET i == Head(its).key
             mapping == Head(its).val
             a1 == append_cuts(self, mapping.indexes, acc)
             combiner == list_getitem(self.sky_region.combiners, i)
             a2 == IF combiner # None
                   THEN [a1 EXCEPT !.combine_list = Append(@, val(combiner))]
                   ELSE a1
             a3 == IF i < num_selections
                   THEN [a2 EXCEPT !.combine_list = Append(@, <<"o", "r">>)]
                   ELSE a2
         IN IF a1.error # "None" THEN a1
            ELSE selection_mapping_items_mutant(self, Tail(its), num_selections, a3)

\* The loop over selection_mapping.items(): the cuts of the group, then
\* combiners[i] when the list has one at i, then "or" when i is below the
\* number of groups less one
RECURSIVE selection_mapping_items(_, _, _, _)
selection_mapping_items(self, its, num_selections, acc) ==
    IF its = <<>> \/ acc.error # "None" THEN acc
    ELSE LET i == Head(its).key
             mapping == Head(its).val
             a1 == append_cuts(self, mapping.indexes, acc)
             combiner == list_getitem(self.sky_region.combiners, i)
             a2 == IF combiner # None
                   THEN [a1 EXCEPT !.combine_list = Append(@, val(combiner))]
                   ELSE a1
             a3 == IF i < num_selections - 1
                   THEN [a2 EXCEPT !.combine_list = Append(@, <<"o", "r">>)]
                   ELSE a2
         IN IF a1.error # "None" THEN a1
            ELSE selection_mapping_items(self, Tail(its), num_selections, a3)

\* The try block of proposal_fields: the time dependent cuts, or on the
\* TypeError of len(None) the selections and the combiners as they are
region_cuts_and_combiners(self) ==
    LET start == [ region_cuts |-> <<>>, combine_list |-> <<>>, error |-> "None" ]
    IN IF self.sky_region.selection_mapping = None
       THEN [ start EXCEPT !.region_cuts = values(self.sky_region.selections),
                           !.combine_list = @ \o self.sky_region.combiners ]
       ELSE selection_mapping_items(self, items(self.sky_region.selection_mapping),
                                    len(self.sky_region.selection_mapping), start)

\* The query of every region cut
region_queries(region_cuts) ==
    [ j \in 1..Len(region_cuts) |->
        LET cut == region_cuts[j]
        IN IF cut.limit_type # <<"G", "P">>
           THEN select_region(cut.limit_type, cut.minimum_limit, cut.maximum_limit)
           ELSE galactic_region(cut.maximum_limit, cut.minimum_limit,
                                cut.bounds_limit) ]

\* exclusion_query_loop with the first Galactic-plane cut kept
RECURSIVE exclusion_query_loop_first(_, _)
exclusion_query_loop_first(cuts, exclusion_query) ==
    IF cuts = <<>> THEN exclusion_query
    ELSE LET cut == Head(cuts)
         IN exclusion_query_loop_first(
               Tail(cuts),
               IF cut.limit_type = <<"G", "P">> /\ exclusion_query = None
               THEN Some(galactic_region(cut.maximum_limit, cut.minimum_limit,
                                         cut.bounds_limit))
               ELSE exclusion_query)

\* exclusion_query_loop with every exclusion cut taken, whatever its type
RECURSIVE exclusion_query_loop_any(_, _)
exclusion_query_loop_any(cuts, exclusion_query) ==
    IF cuts = <<>> THEN exclusion_query
    ELSE LET cut == Head(cuts)
         IN exclusion_query_loop_any(
               Tail(cuts),
               Some(galactic_region(cut.maximum_limit, cut.minimum_limit,
                                    cut.bounds_limit)))

\* The loop over sky_exclusion.selections.values(): the query of a GP cut
\* replaces the one found before
RECURSIVE exclusion_query_loop(_, _)
exclusion_query_loop(cuts, exclusion_query) ==
    IF cuts = <<>> THEN exclusion_query
    ELSE LET cut == Head(cuts)
         IN exclusion_query_loop(
               Tail(cuts),
               IF cut.limit_type = <<"G", "P">>
               THEN Some(galactic_region(cut.maximum_limit, cut.minimum_limit,
                                         cut.bounds_limit))
               ELSE exclusion_query)

\* The field Ids of a set of rows
field_ids(rows) == { x.fieldId : x \in rows }

\* General.proposal_fields(fd, fs): what it returns or raises, with the
\* lists it built on the way
General_proposal_fields(self, db) ==
    LET norm == region_cuts_and_combiners(self)
        query_list == region_queries(norm.region_cuts)
        exclusion_query ==
            exclusion_query_loop(values(self.sky_exclusion.selections), None)
        query == combine_queries(query_list, norm.combine_list)
        ids_all == field_ids(get_field_set(db, query))
        eids == IF exclusion_query # None
                THEN field_ids(get_field_set(db,
                                   combine_queries(<<val(exclusion_query)>>, <<>>)))
                ELSE {}
        result == [ error |-> "None", value |-> <<>>,
                    region_cuts |-> norm.region_cuts,
                    combine_list |-> norm.combine_list,
                    exclusion_query |-> exclusion_query ]
    IN IF norm.error # "None"
       THEN [ result EXCEPT !.error = norm.error, !.exclusion_query = None ]
       ELSE IF query.error # "None"
       THEN [ result EXCEPT !.error = query.error ]
       ELSE [ result EXCEPT !.value = sorted(list_of(ids_all \ eids)) ]

\* Region selections of the three kinds
RegionCuts ==
    { [ limit_type |-> <<"R", "A">>, minimum_limit |-> 0, maximum_limit |-> 10,
        bounds_limit |-> 0 ],
      [ limit_type |-> <<"D", "e", "c">>, minimum_limit |-> 0 - 5, maximum_limit |-> 5,
        bounds_limit |-> 0 ],
      [ limit_type |-> <<"G", "P">>, minimum_limit |-> 0, maximum_limit |-> 10,
        bounds_limit |-> 90 ] }

\* Exclusion selections: two Galactic-plane ones and one of another type
ExclusionCuts ==
    Exclusions \cup
    { [ limit_type |-> <<"G", "P">>, minimum_limit |-> 0, maximum_limit |-> 3,
        bounds_limit |-> 90 ] }

\* The groups of a selection mapping over n selections, as lists of indexes
Groupings(n) ==
    LET all == [j \in 1..n |-> j - 1]
    IN  { <<all>>, [j \in 1..n |-> <<j - 1>>], <<<<n>>>> } \cup
        (IF n >= 2 THEN { <<<<0>>, Tail(all)>>, <<SubSeq(all, 1, n - 1), <<n - 1>>>> }
         ELSE {})

\* The time ranges and selection mappings over n selections: none, or a
\* grouping stored under the keys 0, 1, ... or 1, 2, ...
TimeDependentCuts(n) ==
    {[ time_ranges |-> None, selection_mapping |-> None ]} \cup
    { [ time_ranges |->
            Dict([j \in 1..Len(g) |-> [start |-> j, end |-> j + 1]]),
        selection_mapping |->
            DictOf([j \in 1..Len(g) |-> j - 1 + first],
                   [j \in 1..Len(g) |-> [indexes |-> g[j]]]) ] :
      g \in Groupings(n), first \in {0, 1} }

\* Proposals with a sky region of every shape and one of two exclusions
\* (first disjunct), or with one of two sky regions and every exclusion
InitFields ==
    /\ \/ \E sel \in { Dict(q) : q \in SeqUpTo(RegionCuts, MaxCuts) },
             comb \in SeqUpTo({<<"a", "n", "d">>, <<"o", "r">>}, MaxCuts - 1),
             exc \in { Dict(<<>>),
                       Dict(<<CHOOSE x \in Exclusions : x.limit_type = <<"G", "P">>,
                              CHOOSE x \in Exclusions : x.limit_type # <<"G", "P">>>>) } :
             \E tr \in TimeDependentCuts(len(sel)) :
                general = GeneralWith(sel, comb, tr, exc, None)
       \/ \E sel \in { Dict(q) : q \in SeqUpTo(RegionCuts, 1) },
             exc \in { Dict(q) : q \in SeqUpTo(ExclusionCuts, MaxFieldExclusions) } :
             general = GeneralWith(sel, <<>>,
                                   [time_ranges |-> None, selection_mapping |-> None],
                                   exc, None)
    /\ topic = <<>>
    /\ gpc = "off"
    /\ fd = FieldsDatabase
    /\ ids = <<>>
    /\ fpc = "ready"

\* general_config.proposal_fields(fd, fs)
proposal_fields ==
    /\ fpc = "ready"
    /\ ids' = General_proposal_fields(general, fd)
    /\ fpc' = "returned"
    /\ UNCHANGED <<general, topic, gpc, fd>>
    /\ UNCHANGED seqVars
    /\ UNCHANGED commVars

NextFields == proposal_fields

InitProposalFields == InitFields /\ IdleComm /\ IdleSequence

SpecFields == InitProposalFields /\ [][NextFields]_vars

\* The longest list of sky user regions, and the field Ids it is made of
MaxRegions == 4

RegionIds == {10, 20, 30}

\* Sequence.proposal_fields with the Ids passed through a set, as the General
\* variant does
Sequence_proposal_fields_mutant(self) ==
    sorted(list_of({ self.sky_user_regions[j] : j \in 1..Len(self.sky_user_regions) }))

\* Sequence.proposal_fields(): sorted(self.sky_user_regions)
Sequence_proposal_fields(self) == sorted(self.sky_user_regions)

\* A Sequence proposal with a list of sky user regions, before the call
InitSequenceFields ==
    /\ \E regions \in SeqUpTo(RegionIds, MaxRegions) :
          sequence = SequenceWith(regions, None, None, None)
    /\ stopic = <<>>
    /\ spc = "called"
    /\ fd = {}
    /\ ids = <<>>
    /\ fpc = "off"

\* sequence_config.proposal_fields()
sequence_proposal_fields ==
    /\ spc = "called"
    /\ ids' = Sequence_proposal_fields(sequence)
    /\ spc' = "returned"
    /\ UNCHANGED <<sequence, stopic, fd, fpc>>
    /\ UNCHANGED genVars
    /\ UNCHANGED commVars

NextSequenceFields ==
    \/ sequence_proposal_fields
    \/ setDefaults

InitSequenceProposalFields == InitSequenceFields /\ IdleComm /\ IdleGeneral

SpecSequenceFields == InitSequenceProposalFields /\ [][NextSequenceFields]_vars

-----------------------------------------------------------------------------
(* Properties of the acquisition protocol *)

\* The order of the eleven topics
AcquisitionOrder ==
    << "schedulerConfig", "driverConfig", "obsSiteConfig", "telescopeConfig",
       "domeConfig", "rotatorConfig", "cameraConfig", "slewConfig",
       "opticsLoopCorrConfig", "parkConfig", "surveyTopology" >>

\* The table of validity predicates
TablePredicate(t, s) ==
    CASE t = "schedulerConfig"      -> s.surveyDuration # 0
      [] t = "driverConfig"         -> s.timecostTimeMax > 0
      [] t = "obsSiteConfig"        -> s.name # <<>>
      [] t = "telescopeConfig"      -> s.altitudeMinpos >= 0
      [] t = "domeConfig"           -> s.altitudeMaxspeed >= 0
      [] t = "rotatorConfig"        -> s.maxspeed >= 0
      [] t = "cameraConfig"         -> s.readoutTime > 0
      [] t = "slewConfig"           -> s.prereqExposures # <<>>
      [] t = "opticsLoopCorrConfig" -> s.telOpticsOlSlope > 0
      [] t = "parkConfig"           -> s.telescopeAltitude > 0
      [] t = "surveyTopology"       -> s.numGeneralProps > 0 \/ s.numSequenceProps > 0

Range(f) == { f[x] : x \in DOMAIN f }

Accepted == Range(hist.accepted)

\* The step in which getNextSample_* returns
PollStep == pc = "poll" /\ pc' # "poll"

\* The step in which the else branch reads the clock
CheckStep == pc = "check" /\ pc' # "check"

\* The latest poll returned code 0 with a sample satisfying the table
LastPollGood ==
    /\ hist.lastPoll # <<>>
    /\ hist.lastPoll[1].rcode = 0
    /\ TablePredicate(hist.lastPoll[1].topic, hist.lastPoll[1].sample)

\* C1 as stated: an acquisition succeeds if and only if a poll returning code
\* 0 with a sample satisfying the predicate is made before the timeout has
\* elapsed since the acquisition began; otherwise it ends with the timeout
\* error.
C1_SucceedsIffValidPollBeforeTimeout ==
    /\ error \in {"None", "SchedulerTimeoutError"}
    /\ hist.lastAccept # <<>> =>
          /\ LastPollGood
          /\ hist.lastAccept[1].elapsed <= socs_timeout
    /\ pc = "raised" =>
          /\ error = "SchedulerTimeoutError"
          /\ ~LastPollGood

\* C1 amended: an acquisition succeeds if and only if a poll returns code 0
\* with a sample satisfying the predicate and no earlier failing poll of it was
\* followed by a clock reading more than socs_timeout after its start (the
\* accepting poll itself may return after the timeout has elapsed); it ends
\* with SchedulerTimeoutError exactly at the first failing poll followed by
\* such a reading, and with no other error.
C1_SucceedsIffValidPollBeforeLateCheck ==
    /\ error \in {"None", "SchedulerTimeoutError"}
    /\ error = "SchedulerTimeoutError" <=> pc = "raised"
    /\ hist.lastAccept # <<>> =>
          /\ LastPollGood
          /\ hist.lastPoll[1].topic = hist.lastAccept[1].topic
          /\ hist.lastCheck # <<>> => hist.lastCheck[1].elapsed <= socs_timeout
    /\ pc = "raised" =>
          /\ ~LastPollGood
          /\ hist.lastAccept = <<>>
          /\ hist.lastCheck # <<>>
          /\ hist.lastCheck[1].elapsed > socs_timeout
    /\ pc = "check" => ~LastPollGood /\ hist.lastAccept = <<>>
    /\ (pc = "poll" /\ hist.lastCheck # <<>>) =>
          hist.lastCheck[1].elapsed <= socs_timeout

\* C1 witness: a sample accepted on a poll that returned after the timeout
\* had elapsed, a failing poll having been checked in time before it
C1_Witness ==
    /\ hist.lastAccept # <<>>
    /\ hist.lastAccept[1].elapsed > socs_timeout
    /\ hist.lastCheck # <<>>
    /\ hist.lastCheck[1].elapsed > 0
    /\ hist.lastCheck[1].elapsed <= socs_timeout

\* C2: the wait loop is left by its success exit only on a poll with code 0
\* and a sample satisfying the table's predicate; every other poll leaves the
\* step where it was, in the else branch, and the else branch either goes round
\* the loop or raises the timeout error.
C2_OnlyValidPollAccepts ==
    /\ [][PollStep =>
            LET p == hist'.lastPoll[1]
                good == p.rcode = 0 /\ TablePredicate(p.topic, p.sample)
            IN /\ hist'.accepted # hist.accepted <=> good
               /\ good => hist'.accepted = Append(hist.accepted, p.topic)
               /\ error' = error
               /\ ~good => /\ pc' = "check"
                           /\ cur' = cur
                           /\ config' = config
                           /\ num_proposals' = num_proposals
                           /\ survey_topology' = survey_topology]_vars
    /\ [][CheckStep =>
            /\ hist'.accepted = hist.accepted
            /\ \/ pc' = "poll" /\ error' = error
               \/ pc' = "raised" /\ error' = "SchedulerTimeoutError"]_vars

\* C2 witness: a poll returned code 0 with a sample failing the predicate and
\* the loop is in its else branch, earlier topics having been accepted
C2_Witness ==
    /\ pc = "check"
    /\ hist.lastPoll # <<>>
    /\ hist.lastPoll[1].rcode = 0
    /\ ~TablePredicate(hist.lastPoll[1].topic, hist.lastPoll[1].sample)
    /\ hist.lastPoll[1].topic = "cameraConfig"
    /\ Len(hist.accepted) = 6

\* Position of topic t in the acquisition order
Position(t) == CHOOSE i \in 1..Len(AcquisitionOrder) : AcquisitionOrder[i] = t

\* C3: once the k-th topic has timed out, configure() and initialize() have
\* ended with SchedulerTimeoutError for good, and no later topic has been or
\* will be subscribed to or polled.
C3_TimeoutAbortsConfigure ==
    /\ [](error = "SchedulerTimeoutError" =>
            /\ pc = "raised"
            /\ hist.lastCheck # <<>>
            /\ \A j \in (Position(hist.lastCheck[1].topic) + 1)..Len(AcquisitionOrder) :
                  /\ AcquisitionOrder[j] \notin hist.subscribed
                  /\ AcquisitionOrder[j] \notin hist.polled
                  /\ AcquisitionOrder[j] \notin DOMAIN conf)
    /\ [][error = "SchedulerTimeoutError" =>
            /\ error' = error
            /\ pc' = pc
            /\ hist' = hist
            /\ conf' = conf
            /\ config' = config]_vars

\* C3 witness: the fourth topic timed out after three were accepted
C3_Witness ==
    /\ pc = "raised"
    /\ error = "SchedulerTimeoutError"
    /\ hist.lastCheck[1].topic = "telescopeConfig"
    /\ Len(hist.accepted) = 3
    /\ hist.subscribed = {"schedulerConfig", "driverConfig", "obsSiteConfig",
                          "telescopeConfig"}

\* C4: topics are acquired in the fixed order: the accepted topics are a prefix
\* of the order, the only topic polled and not yet accepted is the next one of
\* the order, and no poll is made for a topic already accepted.
C4_StrictOrder ==
    /\ [](/\ Len(hist.accepted) <= Len(AcquisitionOrder)
          /\ \A i \in 1..Len(hist.accepted) : hist.accepted[i] = AcquisitionOrder[i]
          /\ \A t \in hist.polled \ Accepted :
                /\ Len(hist.accepted) < Len(AcquisitionOrder)
                /\ t = AcquisitionOrder[Len(hist.accepted) + 1]
          /\ Cardinality(hist.polled \ Accepted) <= 1
          /\ hist.polled \subseteq hist.subscribed)
    /\ [][PollStep => hist'.lastPoll[1].topic \notin Accepted]_vars

\* C4 witness: configure() returned in live mode with all eleven accepted
C4_Witness ==
    /\ pc = "done"
    /\ ~no_dds_comm
    /\ hist.accepted = AcquisitionOrder
    /\ hist.polled = Topics

-----------------------------------------------------------------------------
(* Properties of the configuration tree *)

\* The part of tree c that belongs to topic t
SectionOf(t, c) ==
    CASE t = "schedulerConfig"      -> c.survey
      [] t = "driverConfig"         -> c.sched_driver
      [] t = "obsSiteConfig"        -> c.observing_site
      [] t = "telescopeConfig"      -> c.observatory.telescope
      [] t = "domeConfig"           -> c.observatory.dome
      [] t = "rotatorConfig"        -> c.observatory.rotator
      [] t = "cameraConfig"         -> c.observatory.camera
      [] t = "slewConfig"           -> c.observatory.slew
      [] t = "opticsLoopCorrConfig" -> c.observatory.optics_loop_corr
      [] t = "parkConfig"           -> c.observatory.park
      [] t = "surveyTopology"       -> c.science

TreeTopics == Topics \ {"surveyTopology"}

\* Four sections spelled out field by field from sample s
SurveyFrom(s) == [ duration |-> s.surveyDuration ]

RotatorFrom(s) ==
    [ minpos |-> s.minpos, maxpos |-> s.maxpos, filter_change_pos |-> s.filterChangePos,
      maxspeed |-> s.maxspeed, accel |-> s.accel, decel |-> s.decel,
      follow_sky |-> (s.followsky # 0), resume_angle |-> (s.resumeAngle # 0) ]

OpticsLoopCorrFrom(s) ==
    [ tel_optics_ol_slope |-> s.telOpticsOlSlope,
      tel_optics_cl_alt_limit |-> s.telOpticsClAltLimit,
      tel_optics_cl_delay |-> s.telOpticsClDelay ]

ParkFrom(s) ==
    [ telescope_altitude |-> s.telescopeAltitude, telescope_azimuth |-> s.telescopeAzimuth,
      telescope_rotator |-> s.telescopeRotator, dome_altitude |-> s.domeAltitude,
      dome_azimuth |-> s.domeAzimuth, filter_position |-> s.filterPosition ]

\* C5 as stated: after configure() has returned in live mode every section of
\* the tree, science.general_props / science.sequence_props included, has been
\* written by its step from the sample that step accepted.
C5_EverySectionWritten ==
    (pc = "done" /\ ~no_dds_comm) =>
        \A t \in Topics :
            /\ t \in Accepted
            /\ SectionOf(t, config) # SectionOf(t, InitConfig)

\* C5 amended: in live mode each of the ten sections survey, sched_driver,
\* observing_site and observatory.{telescope, dome, rotator, camera, slew,
\* optics_loop_corr, park} is written exactly once, by its own step, in the
\* fixed order, every field from the one sample that step accepted, and is
\* untouched until then; the survey topology step writes no section of the
\* tree (science stays as it was) and puts the proposal names into the
\* communicator's survey_topology instead.
C5_SectionsWrittenOnceFromAcceptedSample ==
    ~no_dds_comm =>
        /\ hist.writes = hist.accepted
        /\ \A i \in 1..Len(hist.writes) : hist.writes[i] = AcquisitionOrder[i]
        /\ pc = "done" => hist.writes = AcquisitionOrder
        /\ \A t \in Accepted :
              /\ TablePredicate(t, hist.sample[t])
              /\ conf[t] = hist.sample[t]
        /\ \A t \in TreeTopics :
              SectionOf(t, config) =
                 IF t \in Accepted
                 THEN SectionOf(t, Write(t, InitConfig, hist.sample[t]))
                 ELSE SectionOf(t, InitConfig)
        /\ "schedulerConfig" \in Accepted =>
              config.survey = SurveyFrom(hist.sample["schedulerConfig"])
        /\ "rotatorConfig" \in Accepted =>
              config.observatory.rotator = RotatorFrom(hist.sample["rotatorConfig"])
        /\ "opticsLoopCorrConfig" \in Accepted =>
              config.observatory.optics_loop_corr =
                 OpticsLoopCorrFrom(hist.sample["opticsLoopCorrConfig"])
        /\ "parkConfig" \in Accepted =>
              config.observatory.park = ParkFrom(hist.sample["parkConfig"])
        /\ config.science = InitConfig.science
        /\ IF "surveyTopology" \in Accepted
           THEN /\ DOMAIN survey_topology = {"general", "sequence"}
                /\ join(survey_topology["general"], ",") =
                      hist.sample["surveyTopology"].generalPropos
                /\ join(survey_topology["sequence"], ",") =
                      hist.sample["surveyTopology"].sequencePropos
           ELSE survey_topology = Empty

\* C5 witness: configure() returned in live mode, the telescope section
\* holding a published sample accepted after a rejected one
C5_Witness ==
    /\ pc = "done"
    /\ ~no_dds_comm
    /\ Len(hist.writes) = Len(AcquisitionOrder)
    /\ config.observatory.telescope.altitude_minpos = 20
    /\ config.observatory.park.telescope_altitude = 86
    /\ survey_topology["general"] = << <<"W">>, <<"N">> >>

\* C6: no acquisition is left by its success exit on a zero-initialised
\* sample, whatever the topic.
C6_ZeroSampleNeverAccepted ==
    \A t \in Accepted : hist.sample[t] # ZeroSample(t)

\* The delimiter-separated strings of sample s of topic t, each with the list
\* configure() decoded it to
DecodedFields(t) ==
    LET s == hist.sample[t]
    IN
    CASE t = "cameraConfig" ->
           { <<s.filterMounted, config.observatory.camera.filter_mounted>>,
             <<s.filterRemovable, config.observatory.camera.filter_removable>>,
             <<s.filterUnmounted, config.observatory.camera.filter_unmounted>> }
      [] t = "slewConfig" ->
           { <<s.prereqDomaz, config.observatory.slew.prereq_domaz>>,
             <<s.prereqTelalt, config.observatory.slew.prereq_telalt>>,
             <<s.prereqTelaz, config.observatory.slew.prereq_telaz>>,
             <<s.prereqTelOpticsOpenLoop, config.observatory.slew.prereq_telopticsopenloop>>,
             <<s.prereqTelOpticsClosedLoop, config.observatory.slew.prereq_telopticsclosedloop>>,
             <<s.prereqTelRot, config.observatory.slew.prereq_telrot>>,
             <<s.prereqFilter, config.observatory.slew.prereq_filter>>,
             <<s.prereqAdc, config.observatory.slew.prereq_adc>>,
             <<s.prereqInsOptics, config.observatory.slew.prereq_ins_optics>>,
             <<s.prereqGuiderPos, config.observatory.slew.prereq_guider_pos>>,
             <<s.prereqGuiderAdq, config.observatory.slew.prereq_guider_adq>>,
             <<s.prereqTelSettle, config.observatory.slew.prereq_telsettle>>,
             <<s.prereqDomazSettle, config.observatory.slew.prereq_domazsettle>>,
             <<s.prereqExposures, config.observatory.slew.prereq_exposures>>,
             <<s.prereqReadout, config.observatory.slew.prereq_readout>> }
      [] t = "surveyTopology" ->
           { <<s.generalPropos, survey_topology["general"]>>,
             <<s.sequencePropos, survey_topology["sequence"]>> }

\* The list is the decoding of the string: no token for the empty string,
\* otherwise the comma-free tokens that joined by ',' give the string back
Decodes(str, list) ==
    IF str = <<>>
    THEN list = <<>>
    ELSE /\ Len(list) >= 1
         /\ \A i \in 1..Len(list) : \A j \in 1..Len(list[i]) : list[i][j] # ","
         /\ join(list, ",") = str

\* C7: every delimiter-separated string that configure() decodes gives the
\* empty list for the empty string and its tokens in order otherwise.
C7_EmptyStringDecodesToEmptyList ==
    \A t \in {"cameraConfig", "slewConfig", "surveyTopology"} \cap Accepted :
        \A d \in DecodedFields(t) : Decodes(d[1], d[2])

\* C8: after the survey topology has been accepted num_proposals is the sum of
\* the two counts the validity predicate tested, hence greater than 0.
C8_TotalIsSumOfTestedCounts ==
    "surveyTopology" \in Accepted =>
        /\ num_proposals # <<>>
        /\ num_proposals[1] = hist.sample["surveyTopology"].numGeneralProps
                           + hist.sample["surveyTopology"].numSequenceProps
        /\ num_proposals[1] > 0

-----------------------------------------------------------------------------
(* Properties of the General encoder *)

\* The entries of an optional dict, none when it is None
Entries(d) == IF d = None THEN <<>> ELSE values(d)

CommaFree(str) == \A j \in 1..Len(str) : str[j] # ","

Encoded == gpc = "encoded"

\* Token p of the split names is the name of the filter whose values are in
\* slot p - 1
FilterAligned(fs, tokens, p) ==
    /\ tokens[p] = fs[p].name
    /\ topic.numVisits[p - 1] = fs[p].num_visits
    /\ topic.numGroupedVisits[p - 1] = fs[p].num_grouped_visits
    /\ topic.maxGroupedVisits[p - 1] = fs[p].max_grouped_visits
    /\ topic.brightLimit[p - 1] = fs[p].bright_limit
    /\ topic.darkLimit[p - 1] = fs[p].dark_limit
    /\ topic.maxSeeing[p - 1] = fs[p].max_seeing
    /\ topic.numFilterExposures[p - 1] = Len(fs[p].exposures)

\* C9 as stated: the record of a proposal with N filters and M region
\* selections has numFilters = N and numRegionSelections = M, and filterNames
\* splits into exactly N tokens, token p naming the filter of slot p.
C9_FilterNamesRoundTrip ==
    Encoded =>
        LET fs == Entries(general.filters)
            tokens == split(topic.filterNames, ",")
        IN /\ topic.numFilters = Len(fs)
           /\ topic.numRegionSelections = Len(Entries(general.sky_region.selections))
           /\ Len(tokens) = Len(fs)
           /\ \A p \in 1..Len(fs) : FilterAligned(fs, tokens, p)

\* C9 amended: numFilters = N and numRegionSelections = M always; when N >= 1
\* and no filter name contains ',', filterNames splits into exactly N tokens,
\* token p naming the filter whose values are in slot p, in iteration order.
C9_FilterNamesRoundTripNonEmpty ==
    Encoded =>
        LET fs == Entries(general.filters)
            tokens == split(topic.filterNames, ",")
        IN /\ topic.numFilters = Len(fs)
           /\ topic.numRegionSelections = Len(Entries(general.sky_region.selections))
           /\ (Len(fs) >= 1 /\ \A p \in 1..Len(fs) : CommaFree(fs[p].name)) =>
                 /\ Len(tokens) = Len(fs)
                 /\ \A p \in 1..Len(fs) : FilterAligned(fs, tokens, p)

\* C9 witness: a proposal of two different filters and two region selections
\* encoded into a record that carried another proposal
C9_Witness ==
    /\ Encoded
    /\ topic.numFilters = 2
    /\ topic.numRegionSelections = 2
    /\ topic.filterNames = <<"u", ",", "g">>
    /\ topic.numVisits[0] = 75
    /\ topic.numVisits[1] = 105

\* The three categorical strings with their count fields and their entries
Categorical ==
    { [ str |-> topic.filterNames, count |-> topic.numFilters,
        names |-> Field(Entries(general.filters), "name") ],
      [ str |-> topic.regionTypes, count |-> topic.numRegionSelections,
        names |-> Field(Entries(general.sky_region.selections), "limit_type") ],
      [ str |-> topic.exclusionTypes, count |-> topic.numExclusionSelections,
        names |-> Field(Entries(general.sky_exclusion.selections), "limit_type") ] }

\* C10 as stated: for filters, region selections and exclusion selections the
\* number of tokens of the joined string equals the count field, for every
\* number of entries from zero upward.
C10_TokenCountEqualsCount ==
    Encoded =>
        \A c \in Categorical :
            /\ c.count = Len(c.names)
            /\ Len(split(c.str, ",")) = c.count

\* C10 amended: the count field is the number of entries; for one entry or
\* more, none containing ',', the number of tokens of the joined string equals
\* the count field; for no entry the count field is 0 while the string is left
\* as the record held it, and its split has at least one token.
C10_TokenCountEqualsCountNonEmpty ==
    /\ [](Encoded =>
            \A c \in Categorical :
                /\ c.count = Len(c.names)
                /\ (c.count >= 1 /\ \A p \in 1..Len(c.names) : CommaFree(c.names[p])) =>
                      /\ Len(split(c.str, ",")) = c.count
                      /\ split(c.str, ",") = c.names
                /\ c.count = 0 => Len(split(c.str, ",")) >= 1)
    /\ [][(gpc = "ready" /\ gpc' = "encoded") =>
            /\ general.filters \in {None, Dict(<<>>)} =>
                  topic'.filterNames = topic.filterNames
            /\ general.sky_region.selections \in {None, Dict(<<>>)} =>
                  topic'.regionTypes = topic.regionTypes
            /\ general.sky_exclusion.selections \in {None, Dict(<<>>)} =>
                  topic'.exclusionTypes = topic.exclusionTypes]_vars

\* C10 witness: a record encoded from two filters, two region selections of
\* different types and one exclusion selection
C10_Witness ==
    /\ Encoded
    /\ topic.numFilters = 2
    /\ topic.numRegionSelections = 2
    /\ topic.numExclusionSelections = 1
    /\ topic.regionTypes = <<"R", "A", ",", "G", "P">>
    /\ topic.exclusionTypes = <<"D", "e", "c">>

-----------------------------------------------------------------------------
(* Properties of both encoders *)

SequenceEncoded == spc = "encoded"

\* The number of exposures of the filters before filter p
RECURSIVE ExposureOffset(_, _)
ExposureOffset(fs, p) ==
    IF p <= 1 THEN 0
    ELSE ExposureOffset(fs, p - 1) + Len(fs[p - 1].exposures)

\* The record tp holds the exposures of the filters fs flattened: filter p has
\* its count in slot p - 1 and its exposures, in order, from its offset on
ExposuresFlattened(fs, tp) ==
    \A p \in 1..Len(fs) :
        /\ tp.numFilterExposures[p - 1] = Len(fs[p].exposures)
        /\ \A k \in 1..Len(fs[p].exposures) :
              tp.exposures[ExposureOffset(fs, p) + k - 1] = fs[p].exposures[k]

\* The slots from the total number of exposures on are as they were
ExposuresBeyondKept(fs, before, after) ==
    \A sl \in DOMAIN before.exposures :
        sl >= ExposureOffset(fs, Len(fs) + 1) =>
            after.exposures[sl] = before.exposures[sl]

\* C11: in both encoders, for filters in iteration order with exposure counts
\* n_0, n_1, ..., numFilterExposures[p] = n_p and the exposures of filter p
\* occupy, in order, slots n_0+...+n_(p-1) to n_0+...+n_p - 1 of the exposures
\* array; the running index never restarts, and the encoding writes no slot
\* from the total on.
C11_ExposuresFlattenedAcrossFilters ==
    /\ [](Encoded => ExposuresFlattened(Entries(general.filters), topic))
    /\ [](SequenceEncoded => ExposuresFlattened(Entries(sequence.filters), stopic))
    /\ [][(gpc = "ready" /\ gpc' = "encoded") =>
             ExposuresBeyondKept(Entries(general.filters), topic, topic')]_vars
    /\ [][(spc = "ready" /\ spc' = "encoded") =>
             ExposuresBeyondKept(Entries(sequence.filters), stopic, stopic')]_vars

\* C11 witness: a General record encoded from the filters g (one exposure)
\* and u (two exposures): the exposures of u follow the exposure of g
C11_Witness ==
    /\ Encoded
    /\ topic.numFilters = 2
    /\ topic.numFilterExposures[0] = 1
    /\ topic.numFilterExposures[1] = 2
    /\ topic.exposures[0] = 34
    /\ topic.exposures[1] = 15
    /\ topic.exposures[2] = 16

-----------------------------------------------------------------------------
(* Properties of General.proposal_fields *)

Returned == fpc = "returned" /\ ids.error = "None"

StrictlyAscending(l) == \A j \in 1..(Len(l) - 1) : l[j] < l[j + 1]

Members(l) == { l[j] : j \in 1..Len(l) }

\* The Ids of the rows that the queries of the region cuts, combined by the
\* combine list, select
CandidateIds ==
    { row.fieldId : row \in
        { r \in fd : satisfies(r, region_queries(ids.region_cuts), ids.combine_list) } }

\* The Galactic-plane cuts among the exclusion selections, in iteration order
GalacticExclusions ==
    SelectSeq(values(general.sky_exclusion.selections),
              LAMBDA cut : cut.limit_type = <<"G", "P">>)

\* The Ids of the rows in the region of the last Galactic-plane exclusion
ExcludedIds ==
    IF GalacticExclusions = <<>> THEN {}
    ELSE LET cut == GalacticExclusions[Len(GalacticExclusions)]
         IN { row.fieldId : row \in
                { r \in fd : matches(r, galactic_region(cut.maximum_limit,
                                                       cut.minimum_limit,
                                                       cut.bounds_limit)) } }

\* The flat selection set of one RA selection from 0 to 10, no combiners and
\* no exclusion
FlatRAZeroToTen ==
    /\ general.sky_region.selection_mapping = None
    /\ general.sky_region.combiners = <<>>
    /\ len(general.sky_region.selections) = 1
    /\ values(general.sky_region.selections)[1].limit_type = <<"R", "A">>
    /\ values(general.sky_region.selections)[1].minimum_limit = 0
    /\ values(general.sky_region.selections)[1].maximum_limit = 10
    /\ len(general.sky_exclusion.selections) = 0

\* C12: when General.proposal_fields returns, its result is strictly
\* ascending (so without duplicates) and holds exactly the Ids selected by the
\* combined region query less the Ids selected by the Galactic-plane exclusion
\* query (the last one, when there are several); for the flat selection set of
\* one RA selection from 0 to 10 it is the sorted, de-duplicated Ids of the
\* rows with 0 <= ra <= 10.
C12_FieldsAreCandidatesLessExcluded ==
    Returned =>
        /\ StrictlyAscending(ids.value)
        /\ Members(ids.value) = CandidateIds \ ExcludedIds
        /\ FlatRAZeroToTen =>
              /\ Members(ids.value) = { r.fieldId : r \in { x \in fd : 0 <= x.ra /\ x.ra <= 10 } }
              /\ ids.value = <<1, 3, 4, 5>>

\* C12 witness: a result of two fields left of four candidates, two of which
\* a Galactic-plane exclusion took away
C12_Witness ==
    /\ Returned
    /\ ids.exclusion_query # None
    /\ CandidateIds = {1, 3, 4, 5}
    /\ ids.value = <<1, 4>>

\* The time-range-indexed form was normalized
Normalized ==
    /\ fpc = "returned"
    /\ ids.error # "KeyError"
    /\ general.sky_region.selection_mapping # None

Groups == items(general.sky_region.selection_mapping)

\* The explicit combiner the source supplies for the group of key i, if any
ExplicitCombiner(i) ==
    LET l == general.sky_region.combiners
    IN IF 0 <= i /\ i < Len(l) THEN <<l[i + 1]>> ELSE <<>>

\* The concatenation of the lists parts[1], parts[2], ...
RECURSIVE Concat(_)
Concat(parts) == IF parts = <<>> THEN <<>> ELSE Head(parts) \o Concat(Tail(parts))

\* C13 as stated: an implicit "or" follows exactly the groups that are not
\* the last, contribute more than one selection and have no explicit combiner.
C13_OrOnlyAfterLargeGroupsWithoutCombiner ==
    Normalized =>
        ids.combine_list =
            Concat([j \in 1..Len(Groups) |->
                      ExplicitCombiner(Groups[j].key) \o
                      (IF /\ j < Len(Groups)
                          /\ Len(Groups[j].val.indexes) > 1
                          /\ ExplicitCombiner(Groups[j].key) = <<>>
                       THEN << <<"o", "r">> >> ELSE <<>>)])

\* C13 amended: an implicit "or" follows every group whose key is below the
\* number of groups less one (for the keys 0..n-1 in order: every group but
\* the last), whatever the number of its selections and whether or not it has
\* an explicit combiner; the explicit combiner, when the combiners list has one
\* at the group's key, comes right before it.
C13_OrAfterEveryGroupButTheLastKey ==
    Normalized =>
        ids.combine_list =
            Concat([j \in 1..Len(Groups) |->
                      ExplicitCombiner(Groups[j].key) \o
                      (IF Groups[j].key < Len(Groups) - 1
                       THEN << <<"o", "r">> >> ELSE <<>>)])

\* C13 witness: a group of one selection with the explicit combiner "and",
\* followed by a group of two selections without one
C13_Witness ==
    /\ Normalized
    /\ Returned
    /\ Len(Groups) = 2
    /\ Len(Groups[1].val.indexes) = 1
    /\ Len(Groups[2].val.indexes) = 2
    /\ Len(ids.region_cuts) = 3
    /\ ids.combine_list = << <<"a", "n", "d">>, <<"o", "r">> >>

\* The indexes the groups reference, in iteration order
ReferencedIndexes == Concat([j \in 1..Len(Groups) |-> Groups[j].val.indexes])

\* The selection mapping references every flat selection once and in order
ReferencesEverySelectionInOrder ==
    ReferencedIndexes = Field(items(general.sky_region.selections), "key")

\* The selection mapping is one single group, stored under the key 0
SingleGroup == Len(Groups) = 1 /\ Groups[1].key = 0

\* The flat form is well formed: one combiner less than selections
FlatWellFormed ==
    Len(general.sky_region.combiners) = len(general.sky_region.selections) - 1

\* C14: for a selection mapping that references every flat selection once and
\* in order, the region selections are those of the flat form, and when the
\* mapping is one single group covering all selections the combine list is
\* the full combiners list, as in the flat form.
C14_TimeRangeFormNormalizesAsFlatForm ==
    (Normalized /\ ReferencesEverySelectionInOrder /\ FlatWellFormed) =>
        /\ ids.region_cuts = values(general.sky_region.selections)
        /\ SingleGroup => ids.combine_list = general.sky_region.combiners

\* The proposal with only the Galactic-plane exclusion selections left, and
\* with no exclusion selection at all
WithoutOtherExclusions ==
    [general EXCEPT !.sky_exclusion.selections = Dict(GalacticExclusions)]

WithoutExclusions ==
    [general EXCEPT !.sky_exclusion.selections = Dict(<<>>)]

OtherExclusions ==
    SelectSeq(values(general.sky_exclusion.selections),
              LAMBDA cut : cut.limit_type # <<"G", "P">>)

\* C15: exclusion selections of a type other than Galactic-plane subtract
\* nothing: the outcome is the one of the same proposal without them; and
\* exclusion selections add no field and leave the candidate query alone.
C15_OtherExclusionsSubtractNothing ==
    fpc = "returned" =>
        /\ ids = General_proposal_fields(WithoutOtherExclusions, fd)
        /\ ids.error = General_proposal_fields(WithoutExclusions, fd).error
        /\ ids.region_cuts = General_proposal_fields(WithoutExclusions, fd).region_cuts
        /\ ids.combine_list = General_proposal_fields(WithoutExclusions, fd).combine_list
        /\ Members(ids.value) \subseteq
               Members(General_proposal_fields(WithoutExclusions, fd).value)
        /\ (Returned /\ GalacticExclusions = <<>>) => Members(ids.value) = CandidateIds

\* C15 witness: field 1 lies in the band of a Dec exclusion and is returned
\* all the same
C15_Witness ==
    /\ Returned
    /\ OtherExclusions # <<>>
    /\ GalacticExclusions = <<>>
    /\ \E r \in fd : r.fieldId = 1 /\ 0 - 5 <= r.dec /\ r.dec <= 5
    /\ ids.value = <<1, 3, 4, 5>>

-----------------------------------------------------------------------------
(* Properties of the Sequence encoder *)

\* The number of visit counts of the sub-sequences before sub-sequence p
VisitOffset(ss, p) == num_filter_visits(SubSeq(ss, 1, p - 1))

\* The visit counts of the sub-sequences ss lie flattened in the array arr
VisitsFlattened(ss, arr) ==
    \A p \in 1..Len(ss) :
        \A k \in 1..Len(ss[p].visits_per_filter) :
            arr[VisitOffset(ss, p) + k - 1] = ss[p].visits_per_filter[k]

\* C16: for the top-level sub-sequences in iteration order with filter counts
\* f_0, f_1, ..., numSubSequenceFilters is [f_0, f_1, ...] and the visit
\* counts of sub-sequence p occupy the slots f_0+...+f_(p-1) to
\* f_0+...+f_p - 1 of numSubSequenceFilterVisits.
C16_VisitsFlattenedWithSplitPoints ==
    SequenceEncoded =>
        LET ss == Entries(sequence.sub_sequences)
        IN /\ \A p \in 1..Len(ss) :
                 stopic.numSubSequenceFilters[p - 1] = Len(ss[p].filters)
           /\ VisitsFlattened(ss, stopic.numSubSequenceFilterVisits)

\* The fields of the record that belong to the top-level sub-sequences
TopLevelFields ==
    { "numSubSequences", "subSequenceNames", "subSequenceFilters",
      "numSubSequenceFilters", "numSubSequenceFilterVisits", "numSubSequenceEvents",
      "numSubSequenceMaxMissed", "subSequenceTimeIntervals",
      "subSequenceTimeWindowStarts", "subSequenceTimeWindowMaximums",
      "subSequenceTimeWindowEnds", "subSequenceTimeWeights" }

\* The nested sub-sequences of the proposal, in the order of the loops
Nested == all_nested(Entries(sequence.master_sub_sequences))

\* C17: the master sub-sequence block leaves every top-level sub-sequence
\* field as the top-level block wrote it: the record agrees on them with the
\* encoding of the same proposal without masters into the same record; and
\* the nested visit index starts at 0 whatever the top-level visit index
\* reached: the nested visit counts lie flattened from slot 0 on.
C17_MastersLeaveTopLevelAlone ==
    [][(spc = "ready" /\ spc' = "encoded") =>
          /\ \A f \in TopLevelFields :
                stopic'[f] =
                    Sequence_set_topic([sequence EXCEPT !.master_sub_sequences = None],
                                       stopic)[f]
          /\ VisitsFlattened(Nested, stopic'.num_nested_sub_sequence_filter_visits)]_vars

\* C17 witness: the sub-sequences a and b at the top level and a master with
\* two nested sub-sequences; the nested visits start at slot 0
C17_Witness ==
    /\ SequenceEncoded
    /\ stopic.numSubSequences = 2
    /\ stopic.subSequenceNames = <<"a", ",", "b">>
    /\ stopic.numSubSequenceFilterVisits[4] = 22
    /\ stopic.numMasterSubSequences = 2
    /\ stopic.numNestedSubSequences[0] = 2
    /\ stopic.num_nested_sub_sequence_filter_visits[0] = 10
    /\ stopic.nestedSubSequenceNames = <<"d", ",", "e", ",", "d">>

\* The masters of the proposal with their keys, in iteration order
Masters == IF sequence.master_sub_sequences = None THEN <<>>
           ELSE items(sequence.master_sub_sequences)

\* The number of sub-sequences nested in the masters before master m
RECURSIVE NestedOffset(_)
NestedOffset(m) ==
    IF m <= 1 THEN 0
    ELSE NestedOffset(m - 1) + len(Masters[m - 1].val.sub_sequences)

\* Slot sl of the nested arrays of the record tp holds the sub-sequence x
NestedSlotHolds(tp, sl, x) ==
    /\ tp.numNestedSubSequenceFilters[sl] = Len(x.filters)
    /\ tp.numNestedSubSequenceEvents[sl] = x.num_events
    /\ tp.numNestedSubSequenceMaxMissed[sl] = x.num_max_missed
    /\ tp.nestedSubSequenceTimeIntervals[sl] = x.time_interval
    /\ tp.nestedSubSequenceTimeWindowStarts[sl] = x.time_window_start
    /\ tp.nestedSubSequenceTimeWindowMaximums[sl] = x.time_window_max
    /\ tp.nestedSubSequenceTimeWindowEnds[sl] = x.time_window_end
    /\ tp.nestedSubSequenceTimeWeights[sl] = x.time_weight

NestedArrays ==
    { "numNestedSubSequenceFilters", "numNestedSubSequenceEvents",
      "numNestedSubSequenceMaxMissed", "nestedSubSequenceTimeIntervals",
      "nestedSubSequenceTimeWindowStarts", "nestedSubSequenceTimeWindowMaximums",
      "nestedSubSequenceTimeWindowEnds", "nestedSubSequenceTimeWeights" }

\* The sum of the slots below n of an array
RECURSIVE SumBelow(_, _)
SumBelow(arr, n) == IF n <= 0 THEN 0 ELSE SumBelow(arr, n - 1) + arr[n - 1]

\* The number of nested sub-sequences the record tp declares: the sum of
\* numNestedSubSequences over its leading numMasterSubSequences slots
NestedDeclared(tp) == SumBelow(tp.numNestedSubSequences, tp.numMasterSubSequences)

\* The nested sub-sequence at position j of master m is in slot
\* c_0+...+c_(m-1)+j of every nested array, the nested names and filter
\* strings list the nested sub-sequences in that order and their visit counts
\* lie flattened in that order
NestedSlotsInOrder ==
    SequenceEncoded =>
        /\ \A m \in 1..Len(Masters) :
              LET nested == values(Masters[m].val.sub_sequences)
              IN \A j \in 1..Len(nested) :
                    NestedSlotHolds(stopic, NestedOffset(m) + j - 1, nested[j])
        /\ Masters # <<>> =>
              /\ stopic.nestedSubSequenceNames = join(Field(Nested, "name"), ",")
              /\ stopic.nestedSubSequenceFilters =
                     join([q \in 1..Len(Nested) |-> join(Nested[q].filters, ",")], ",")
        /\ VisitsFlattened(Nested, stopic.num_nested_sub_sequence_filter_visits)

\* The encoder writes no nested slot from c_0+c_1+... on and no nested visit
\* slot from the number of nested visit counts on
NestedSlotsBeyondKept ==
    [][(spc = "ready" /\ spc' = "encoded") =>
          /\ \A f \in NestedArrays : \A sl \in SequenceSlots :
                sl >= NestedOffset(Len(Masters) + 1) => stopic'[f][sl] = stopic[f][sl]
          /\ \A sl \in SequenceSlots :
                sl >= num_filter_visits(Nested) =>
                   stopic'.num_nested_sub_sequence_filter_visits[sl] =
                      stopic.num_nested_sub_sequence_filter_visits[sl]]_vars

\* C18: for the masters in iteration order with nested counts c_0, c_1, ...,
\* the nested sub-sequence at position j of master m is in slot
\* c_0+...+c_(m-1)+j of every nested array; the nested names and filter
\* strings list the nested sub-sequences in that order; their visit counts
\* lie flattened in that order; neither index restarts at a master boundary;
\* and the nested slots written, c_0+c_1+... of them, are as many as the sum
\* of numNestedSubSequences over the masters the record declares.
C18_NestedIndexRunsAcrossMasters ==
    /\ []NestedSlotsInOrder
    /\ NestedSlotsBeyondKept
    /\ [](SequenceEncoded => Len(Nested) = NestedDeclared(stopic))

\* C18 witness: a master of two nested sub-sequences under the key 1 followed
\* by a master of one under the key 2, encoded into a fresh record: the three
\* nested slots are written in order, the record declares two masters and
\* the counts of its two leading slots are 0 and 2
C18_Witness ==
    /\ SequenceEncoded
    /\ Len(Masters) = 2
    /\ Masters[1].key = 1
    /\ Masters[2].key = 2
    /\ len(Masters[1].val.sub_sequences) = 2
    /\ len(Masters[2].val.sub_sequences) = 1
    /\ stopic.numNestedSubSequenceEvents[1] = 62
    /\ stopic.numNestedSubSequenceEvents[2] = 61
    /\ stopic.num_nested_sub_sequence_filter_visits[5] = 10
    /\ stopic.numMasterSubSequences = 2
    /\ stopic.numNestedSubSequences[0] = 0
    /\ stopic.numNestedSubSequences[1] = 2
    /\ NestedDeclared(stopic) = 2

\* The top-level sub-sequences of the proposal, in iteration order
SubSequencesInOrder == Entries(sequence.sub_sequences)

\* C19: the entry at iteration position p of sub_sequences (of
\* master_sub_sequences) is in slot p of every top-level (master) array and
\* its name is token p of subSequenceNames (masterSubSequenceNames), for every
\* set of integer keys.
C19_SlotIsIterationPosition ==
    SequenceEncoded =>
        /\ \A p \in 1..Len(SubSequencesInOrder) :
              LET x == SubSequencesInOrder[p]
              IN /\ split(stopic.subSequenceNames, ",")[p] = x.name
                 /\ stopic.numSubSequenceFilters[p - 1] = Len(x.filters)
                 /\ stopic.numSubSequenceEvents[p - 1] = x.num_events
                 /\ stopic.numSubSequenceMaxMissed[p - 1] = x.num_max_missed
                 /\ stopic.subSequenceTimeIntervals[p - 1] = x.time_interval
                 /\ stopic.subSequenceTimeWindowStarts[p - 1] = x.time_window_start
                 /\ stopic.subSequenceTimeWindowMaximums[p - 1] = x.time_window_max
                 /\ stopic.subSequenceTimeWindowEnds[p - 1] = x.time_window_end
                 /\ stopic.subSequenceTimeWeights[p - 1] = x.time_weight
        /\ \A p \in 1..Len(Masters) :
              LET x == Masters[p].val
              IN /\ split(stopic.masterSubSequenceNames, ",")[p] = x.name
                 /\ stopic.numNestedSubSequences[p - 1] = len(x.sub_sequences)
                 /\ stopic.numMasterSubSequenceEvents[p - 1] = x.num_events
                 /\ stopic.numMasterSubSequenceMaxMissed[p - 1] = x.num_max_missed
                 /\ stopic.masterSubSequenceTimeIntervals[p - 1] = x.time_interval
                 /\ stopic.masterSubSequenceTimeWindowStarts[p - 1] = x.time_window_start
                 /\ stopic.masterSubSequenceTimeWindowMaximums[p - 1] = x.time_window_max
                 /\ stopic.masterSubSequenceTimeWindowEnds[p - 1] = x.time_window_end
                 /\ stopic.masterSubSequenceTimeWeights[p - 1] = x.time_weight

-----------------------------------------------------------------------------
(* The record as a function of the proposal *)

\* The records a and b agree on the slots below n of the arrays fs
AgreeBelow(a, b, fs, n) == \A f \in fs : \A sl \in 0..(n - 1) : a[f][sl] = b[f][sl]

\* The records a and b agree on the fields fs
AgreeOn(a, b, fs) == \A f \in fs : a[f] = b[f]

\* Two generalPropConfig records agree on every count field, every joined
\* string and every array slot that a count field declares valid
GeneralRecordsAgree(a, b) ==
    /\ AgreeOn(a, b, { "numRegionSelections", "numTimeRanges",
                       "numExclusionSelections", "numFilters" })
    /\ AgreeOn(a, b, { "regionTypes", "regionCombiners", "exclusionTypes",
                       "filterNames" })
    /\ AgreeBelow(a, b, { "regionMinimums", "regionMaximums", "regionBounds" },
                  a.numRegionSelections)
    /\ AgreeBelow(a, b, { "timeRangeStarts", "timeRangeEnds" }, a.numTimeRanges)
    /\ AgreeBelow(a, b, { "exclusionMinimums", "exclusionMaximums", "exclusionBounds" },
                  a.numExclusionSelections)
    /\ AgreeBelow(a, b, { "numVisits", "numGroupedVisits", "maxGroupedVisits",
                          "brightLimit", "darkLimit", "maxSeeing",
                          "numFilterExposures" }, a.numFilters)
    /\ AgreeBelow(a, b, { "exposures" }, SumBelow(a.numFilterExposures, a.numFilters))

\* The same for two sequencePropConfig records
SequenceRecordsAgree(a, b) ==
    /\ AgreeOn(a, b, { "numUserRegions", "numSubSequences", "numMasterSubSequences",
                       "numFilters" })
    /\ AgreeOn(a, b, { "subSequenceNames", "subSequenceFilters",
                       "masterSubSequenceNames", "nestedSubSequenceNames",
                       "nestedSubSequenceFilters", "filterNames" })
    /\ AgreeBelow(a, b, { "userRegionIds" }, a.numUserRegions)
    /\ AgreeBelow(a, b, TopLevelFields \ { "numSubSequences", "subSequenceNames",
                                           "subSequenceFilters",
                                           "numSubSequenceFilterVisits" },
                  a.numSubSequences)
    /\ AgreeBelow(a, b, { "numNestedSubSequences", "numMasterSubSequenceEvents",
                          "numMasterSubSequenceMaxMissed",
                          "masterSubSequenceTimeIntervals",
                          "masterSubSequenceTimeWindowStarts",
                          "masterSubSequenceTimeWindowMaximums",
                          "masterSubSequenceTimeWindowEnds",
                          "masterSubSequenceTimeWeights" }, a.numMasterSubSequences)
    /\ AgreeBelow(a, b, { "brightLimit", "darkLimit", "maxSeeing",
                          "numFilterExposures" }, a.numFilters)
    /\ AgreeBelow(a, b, { "exposures" }, SumBelow(a.numFilterExposures, a.numFilters))

\* C20: the record is a function of the proposal alone: the record an encoder
\* fills agrees, on every count field, every joined string and every array
\* slot that a count field declares valid, with the record the same proposal
\* gives in a buffer of other prior contents; and the proposal is left as it
\* was.
C20_RecordIsFunctionOfProposal ==
    [][/\ (gpc = "ready" /\ gpc' = "encoded") =>
             /\ general' = general
             /\ \A other \in {FreshTopic, UsedTopic} :
                   GeneralRecordsAgree(topic', General_set_topic(general, other))
       /\ (spc = "ready" /\ spc' = "encoded") =>
             /\ sequence' = sequence
             /\ \A other \in {FreshSequenceTopic, UsedSequenceTopic} :
                   SequenceRecordsAgree(stopic', Sequence_set_topic(sequence, other))]_vars

-----------------------------------------------------------------------------
(* Termination of the acquisitions *)

\* configure() has returned or raised
Ended == pc \in {"done", "raised"}

\* The k-th acquisition is under way
Acquiring(k) == cur = k /\ pc \in {"step", "poll", "check"}

\* The k-th acquisition is over: a later step runs, or configure() has ended
Over(k) == cur > k \/ Ended

\* C21: with polls that return and a clock that advances, every acquisition
\* that has begun ends, accepted or with SchedulerTimeoutError, and configure()
\* once called returns or raises, whatever the polls deliver.
C21_EveryAcquisitionTerminates ==
    /\ \A k \in 1..Len(configure) : Acquiring(k) ~> Over(k)
    /\ (pc # "constructed") ~> Ended
    /\ [](Ended => (pc = "raised" <=> error = "SchedulerTimeoutError"))

\* C21 witness: the first topic never delivered a sample (every poll returned
\* "no sample") and its acquisition ended with the timeout error
C21_Witness ==
    /\ pc = "raised"
    /\ hist.polled = {"schedulerConfig"}
    /\ hist.lastPoll[1].rcode # 0
    /\ conf["schedulerConfig"] = ZeroSample("schedulerConfig")
    /\ hist.lastCheck[1].elapsed > socs_timeout

-----------------------------------------------------------------------------
(* Synthetic mode *)

\* The steps of configure() that have returned, when no step waits
StepsReturned == IF pc = "done" THEN Len(configure) ELSE cur - 1

\* C22: in synthetic mode every step takes the default sample at once, with no
\* subscribe and no poll, configure() runs its eleven steps in order and never
\* raises, and each step that has returned exposes what a live acquisition of
\* that sample would: its section of the tree written from the default sample
\* and, after the last step, the total proposal count.
C22_SyntheticStepsExposeDefaultSample ==
    no_dds_comm =>
        /\ hist.subscribed = {}
        /\ hist.polled = {}
        /\ error = "None"
        /\ pc \in {"constructed", "step", "done"}
        /\ DOMAIN conf = { configure[i] : i \in 1..StepsReturned }
        /\ \A i \in 1..StepsReturned :
              LET t == configure[i]
              IN /\ conf[t] = ZeroSample(t)
                 /\ SectionOf(t, config) =
                       SectionOf(t, Write(t, InitConfig, ZeroSample(t)))
        /\ pc = "done" =>
              num_proposals = <<proposals_num_proposals(ZeroSample("surveyTopology"))>>

\* C22 amended: in synthetic mode every step stores the default sample in its
\* buffer at once, with no subscribe and no poll, configure() runs its eleven
\* steps in order and never raises; the steps assign nothing else: the tree is
\* left as it was handed in, num_proposals is not set and survey_topology
\* stays empty.
C22_SyntheticStepsOnlyFillBuffers ==
    no_dds_comm =>
        /\ hist.subscribed = {}
        /\ hist.polled = {}
        /\ hist.writes = <<>>
        /\ error = "None"
        /\ pc \in {"constructed", "step", "done"}
        /\ DOMAIN conf = { configure[i] : i \in 1..StepsReturned }
        /\ \A i \in 1..StepsReturned : conf[configure[i]] = ZeroSample(configure[i])
        /\ config = InitConfig
        /\ num_proposals = <<>>
        /\ survey_topology = Empty

\* C22 witness: configure() returned in synthetic mode, the eleven buffers set
C22_Witness ==
    /\ no_dds_comm
    /\ pc = "done"
    /\ StepsReturned = Len(configure)
    /\ DOMAIN conf = Topics

-----------------------------------------------------------------------------
(* The selection mappings of a General proposal *)

\* The number of indexes of the mapping entries before entry p
RECURSIVE MappingOffset(_, _)
MappingOffset(ms, p) ==
    IF p <= 1 THEN 0
    ELSE MappingOffset(ms, p - 1) + Len(ms[p - 1].indexes)

\* The record tp holds the entries ms flattened: entry p has its number of
\* indexes in slot p - 1 and its indexes, in order, from its offset on
MappingsFlattened(ms, tp) ==
    \A p \in 1..Len(ms) :
        /\ tp.numSelectionMappings[p - 1] = Len(ms[p].indexes)
        /\ \A k \in 1..Len(ms[p].indexes) :
              tp.selectionMappings[MappingOffset(ms, p) + k - 1] = ms[p].indexes[k]

\* The slots the entries ms do not reach are as they were
MappingsBeyondKept(ms, before, after) ==
    /\ \A sl \in DOMAIN before.numSelectionMappings :
          sl >= Len(ms) =>
              after.numSelectionMappings[sl] = before.numSelectionMappings[sl]
    /\ \A sl \in DOMAIN before.selectionMappings :
          sl >= MappingOffset(ms, Len(ms) + 1) =>
              after.selectionMappings[sl] = before.selectionMappings[sl]

\* C23: for mapping entries in iteration order with index lists L_0, L_1, ...,
\* numSelectionMappings[p] = len(L_p) and the leading slots of
\* selectionMappings hold L_0, L_1, ... one after the other, the running index
\* never restarting; the slots beyond are not written, and with the mapping
\* absent neither array is written at all.
C23_MappingsFlattenedAcrossEntries ==
    /\ [](Encoded =>
            MappingsFlattened(Entries(general.sky_region.selection_mapping), topic))
    /\ [][(gpc = "ready" /\ gpc' = "encoded") =>
            MappingsBeyondKept(Entries(general.sky_region.selection_mapping),
                               topic, topic')]_vars
    /\ [][(gpc = "ready" /\ gpc' = "encoded"
             /\ general.sky_region.selection_mapping = None) =>
            /\ topic'.numSelectionMappings = topic.numSelectionMappings
            /\ topic'.selectionMappings = topic.selectionMappings]_vars

\* C23 witness: two entries with one index each, each in its own slot, encoded
\* into a record whose earlier mapping shows beyond them
C23_Witness ==
    /\ Encoded
    /\ general.sky_region.selection_mapping # None
    /\ len(general.sky_region.selection_mapping) = 2
    /\ topic.numSelectionMappings[0] = 1
    /\ topic.numSelectionMappings[1] = 1
    /\ topic.selectionMappings[0] = 0
    /\ topic.selectionMappings[1] = 1
    /\ topic.selectionMappings[2] = 1

-----------------------------------------------------------------------------
(* The combine operators of General.proposal_fields *)

\* The groups are stored under the keys 0, 1, ... in order
KeyedFromZero == \A j \in 1..Len(Groups) : Groups[j].key = j - 1

\* C24: for a sky region whose flat group has one combiner less than
\* selections, the combine list handed to combine_queries has one operator
\* less than there are region queries, in the flat form and for every grouping
\* of the selections into time ranges stored under the keys 0, 1, ...
C24_OneCombinerLessThanQueries ==
    (/\ fpc = "returned"
     /\ FlatWellFormed
     /\ general.sky_region.selection_mapping # None =>
           ReferencesEverySelectionInOrder /\ KeyedFromZero) =>
        Len(ids.combine_list) = Len(region_queries(ids.region_cuts)) - 1

-----------------------------------------------------------------------------
(* Galactic-plane exclusions *)

\* The Ids of the rows in the region of the Galactic-plane exclusion cut
ExcludedBy(cut) ==
    field_ids(get_field_set(fd,
        combine_queries(<<galactic_region(cut.maximum_limit, cut.minimum_limit,
                                          cut.bounds_limit)>>, <<>>)))

\* C25: no returned field Id belongs to the field set of any Galactic-plane
\* exclusion selection of the proposal, however many of them it has.
C25_NoIdOfAnyGalacticExclusion ==
    Returned =>
        \A j \in 1..Len(GalacticExclusions) :
            Members(ids.value) \cap ExcludedBy(GalacticExclusions[j]) = {}

-----------------------------------------------------------------------------
(* When the timeout is examined *)

\* The time elapsed since the acquisition under way began
Elapsed == now - lasttime

\* C26: the clock is read only in the else branch of a poll that was not
\* accepted, and SchedulerTimeoutError is raised only there and only when the
\* time elapsed since the acquisition began is strictly greater than
\* socs_timeout: a poll precedes every timeout error, no error is raised while
\* the elapsed time is at most socs_timeout, and a poll with code 0 and a
\* sample satisfying the predicate is accepted however late it returns.
C26_TimeoutExaminedOnlyAfterFailingPoll ==
    /\ [](pc \in {"check", "raised"} =>
            /\ hist.lastPoll # <<>>
            /\ hist.lastPoll[1].topic = configure[cur]
            /\ configure[cur] \in hist.polled
            /\ ~LastPollGood)
    /\ [][error' # error =>
            /\ pc = "check"
            /\ pc' = "raised"
            /\ error' = "SchedulerTimeoutError"
            /\ Elapsed > socs_timeout
            /\ hist'.lastPoll = hist.lastPoll]_vars
    /\ [][(CheckStep /\ Elapsed <= socs_timeout) =>
            /\ error' = error
            /\ pc' = "poll"]_vars
    /\ [][hist'.lastCheck # hist.lastCheck =>
            \/ CheckStep
            \/ hist'.lastCheck = <<>>]_vars
    /\ [][(PollStep /\ hist'.lastPoll[1].rcode = 0
             /\ TablePredicate(hist'.lastPoll[1].topic, hist'.lastPoll[1].sample)) =>
            /\ hist'.accepted = Append(hist.accepted, configure[cur])
            /\ hist'.lastAccept = <<[topic |-> configure[cur], elapsed |-> Elapsed]>>
            /\ error' = error
            /\ pc' \in {"step", "done"}]_vars

\* C26 witness: the last topic was accepted on a poll that returned after the
\* timeout had elapsed, no clock reading having been taken for it
C26_Witness ==
    /\ pc = "done"
    /\ error = "None"
    /\ hist.lastAccept # <<>>
    /\ hist.lastAccept[1].topic = "surveyTopology"
    /\ hist.lastAccept[1].elapsed > socs_timeout
    /\ hist.lastCheck = <<>>

-----------------------------------------------------------------------------
(* One clock per topic *)

\* The step in which a topic's acquisition begins
BeginStep == pc = "step" /\ pc' = "poll"

\* C27: the clock of a topic starts when its own acquisition begins and is
\* touched by nothing else, so the time spent on earlier topics does not count:
\* a clock reading raises exactly when more than socs_timeout has passed since
\* that start, whatever the time since configure() began, and an acquisition
\* during which no reading is later than that goes on to the next step.
C27_ClockStartsWithEachTopic ==
    /\ [][BeginStep =>
            /\ lasttime' = now
            /\ now' = now
            /\ hist'.subscribed = hist.subscribed \cup {configure[cur]}
            /\ hist'.lastPoll = <<>>
            /\ hist'.lastCheck = <<>>]_vars
    /\ [][lasttime' # lasttime => BeginStep]_vars
    /\ [][CheckStep =>
            /\ hist'.lastCheck =
                  <<[topic |-> configure[cur], elapsed |-> now - lasttime]>>
            /\ pc' = "raised" <=> now - lasttime > socs_timeout
            /\ pc' = "poll" <=> now - lasttime <= socs_timeout]_vars
    /\ [](pc \in {"poll", "check", "raised"} => (0 <= now - lasttime))
    /\ [](error = "SchedulerTimeoutError" =>
            hist.lastCheck[1].elapsed = now - lasttime)

\* C27 witness: configure() returned although it ran for more than twice the
\* timeout; the last topic began after the timeout had passed since the
\* start of configure(), was polled in vain, checked in time and then accepted
C27_Witness ==
    /\ pc = "done"
    /\ ~no_dds_comm
    /\ error = "None"
    /\ now > 2 * socs_timeout
    /\ lasttime > socs_timeout
    /\ hist.lastCheck # <<>>
    /\ hist.lastCheck[1].elapsed > 0
    /\ hist.lastAccept[1].elapsed <= socs_timeout

-----------------------------------------------------------------------------
(* No rollback on a timeout *)

\* The topic whose acquisition timed out, as its place in the order
TimedOutAt == Position(hist.lastCheck[1].topic)

\* C28: when topic k has timed out, the sections of topics 1..k-1 hold the
\* values of their accepted samples, the sections of topics k..11 and the
\* total proposal count are as they were before configure() began; and a step
\* writes to the tree only on the poll that accepts its sample, and then only
\* its own section.
C28_NoRollbackOnTimeout ==
    /\ [](pc = "raised" =>
            /\ Len(hist.accepted) = TimedOutAt - 1
            /\ \A i \in 1..(TimedOutAt - 1) :
                  LET t == AcquisitionOrder[i]
                  IN /\ hist.accepted[i] = t
                     /\ SectionOf(t, config) =
                           SectionOf(t, Write(t, InitConfig, hist.sample[t]))
                     /\ SectionOf(t, config) # SectionOf(t, InitConfig)
            /\ \A i \in TimedOutAt..Len(AcquisitionOrder) :
                  SectionOf(AcquisitionOrder[i], config) =
                     SectionOf(AcquisitionOrder[i], InitConfig)
            /\ num_proposals = <<>>
            /\ survey_topology = Empty)
    /\ [][config' # config =>
            /\ PollStep
            /\ hist'.accepted = Append(hist.accepted, configure[cur])
            /\ \A t \in Topics \ {configure[cur]} :
                  SectionOf(t, config') = SectionOf(t, config)]_vars
    /\ [][pc' = "raised" =>
            /\ config' = config
            /\ num_proposals' = num_proposals
            /\ survey_topology' = survey_topology]_vars

\* C28 witness: the telescope topic timed out with a rejected sample in its
\* buffer; the three sections before it are written, its own is not
C28_Witness ==
    /\ pc = "raised"
    /\ TimedOutAt = 4
    /\ conf["telescopeConfig"].altitudeMinpos = 0 - 1
    /\ conf["telescopeConfig"].altitudeMaxpos = 86
    /\ config.survey.duration = 3650
    /\ config.observing_site.name = <<"L", "S", "S", "T">>
    /\ config.observatory.telescope = InitConfig.observatory.telescope

-----------------------------------------------------------------------------
(* Properties of Sequence.proposal_fields *)

\* The number of times x occurs in the list l
Occurrences(l, x) == Cardinality({ j \in 1..Len(l) : l[j] = x })

\* C29: the list returned holds the sky user region Ids in ascending order,
\* each as many times as the configured list holds it, no Id added and none
\* dropped, and the configured list is left as it was.
C29_SortedPermutationOfUserRegions ==
    /\ [](spc = "returned" =>
            /\ \A i, j \in 1..Len(ids) : i < j => ids[i] <= ids[j]
            /\ Len(ids) = Len(sequence.sky_user_regions)
            /\ \A x \in RegionIds :
                  Occurrences(ids, x) = Occurrences(sequence.sky_user_regions, x)
            /\ Members(ids) = Members(sequence.sky_user_regions))
    /\ [][(spc = "called" /\ spc' = "returned") =>
            sequence'.sky_user_regions = sequence.sky_user_regions]_vars

\* C29 witness: a list out of order with a repeated Id, returned in order with
\* the Id twice
C29_Witness ==
    /\ spc = "returned"
    /\ sequence.sky_user_regions = <<30, 10, 30, 20>>
    /\ ids = <<10, 20, 30, 30>>

-----------------------------------------------------------------------------
(* Properties of run() *)

\* The step of a call of run()
RunStep == hist'.runs # hist.runs

\* C30: a call of run(), before or after configure(), live or synthetic, with
\* or without active proposals, raises and puts nothing on the transport and
\* leaves the communicator as it was; nothing is ever put on the transport.
C30_RunRaisesAndPublishesNothing ==
    /\ [](hist.put = <<>>)
    /\ [](hist.runs > 0 => hist.run_error = "DeprecationWarning")
    /\ [][RunStep =>
            /\ hist'.runs = hist.runs + 1
            /\ hist'.run_error = "DeprecationWarning"
            /\ hist'.put = hist.put
            /\ <<sal, config, conf, survey_topology, pc, cur, error>>' =
                  <<sal, config, conf, survey_topology, pc, cur, error>>]_vars

\* C30 witness: run() called after a live configure() that returned, on a
\* tree with active proposals
C30_Witness ==
    /\ hist.runs = 1
    /\ hist.run_error = "DeprecationWarning"
    /\ pc = "done"
    /\ ~no_dds_comm
    /\ sal = "SalManager"
    /\ DOMAIN conf = Topics
    /\ config.science.general_props.active # <<>>

====
